---- MODULE Spec2Model ----
(***************************************************************************)
(* Model of the Pi-ano rhythm game: RhythmMode (the rhythm engine), its    *)
(* AudioScheduler worker thread, the sound engine they share and the part  *)
(* of InputManager and of the main loop that drives them.                  *)
(*                                                                         *)
(* Time is counted in units of 10 ms: every time constant of the source    *)
(* (0.08 s, 0.16 s, 0.2 s, 0.25 s, 1.0 s, the worker's 0.01 s sleep) is a  *)
(* whole number of units.  time.monotonic() is the variable clock.         *)
(***************************************************************************)
EXTENDS Integers, Sequences, FiniteSets, TLC

\* ------------------------------------------------------------------------
\* Program constants (seconds in the source, units of 10 ms here)
\* ------------------------------------------------------------------------
PERFECT_WINDOW_SEC == 8
GOOD_WINDOW_SEC == 16
MISS_LATE_SEC == 25
FALL_DURATION_SEC == 100
FEEDBACK_DURATION_SEC == 25
\* the post-game stages: the result banner lasts 4.0 s, the others 3.0 s
RESULT_SCROLL_SEC == 400
STAGE_SEC == 300
appear_lead == 20
cluster_eps == 8
SLEEP_MAX == 1

FEEDBACK_COLOR_PERFECT == "PERFECT"
FEEDBACK_COLOR_GOOD == "GOOD"
FEEDBACK_COLOR_MISS == "MISS"

None == -1

NoColor == "NONE"

KeyId == 0..4

Difficulties == {"easy", "medium", "hard"}

\* ------------------------------------------------------------------------
\* Bounds of the model
\* ------------------------------------------------------------------------
\* events polled in one iteration of the main loop
MaxEvents == 1
\* how long after its wake-up time the sleeping worker may still be asleep
WorkerLagMax == 1
\* the clock stops this long after the last note of the longest chart
TailSlack == 27
\* longest gap between two frames in the scenario specifications
MaxFrameGap == 2
\* the latest clock value at which a session may start to play
MaxStartClock == 2
\* the clock stops here when the stops of a worker are followed
StopHorizon == 8
\* the step of the clock while the post-game timeline runs
PostQuantum == 300
\* the clock stops this long after the horizon once a session is done
PostSpan == 1700
\* high-score store: largest stored score, number of submitted scores
MaxBest == 2
MaxSubmits == 3
\* the number of sessions that may start when several are played in a row
MaxGames == 2
\* the number of note_on calls of one worker that may raise
MaxFaults == 1

\* ------------------------------------------------------------------------
\* Small helpers
\* ------------------------------------------------------------------------
Abs(x) == IF x < 0 THEN -x ELSE x

Min(a, b) == IF a <= b THEN a ELSE b

Max(a, b) == IF a >= b THEN a ELSE b

\* ------------------------------------------------------------------------
\* MIDI -> chart (RhythmMode._build_chart_from_midi)
\* A MIDI file is modelled by the list of its melodic note-on messages in
\* file order, each with its absolute time and its MIDI note number.
\* ------------------------------------------------------------------------
MidiNoteToKey(midi_note) == Max(0, Min(4, (midi_note - 60) % 5))

\* list.sort(key=time): stable insertion sort
RECURSIVE InsertByTime(_, _)
InsertByTime(sorted, n) ==
    IF sorted = <<>> THEN <<n>>
    ELSE IF sorted[Len(sorted)].time <= n.time THEN Append(sorted, n)
    ELSE Append(InsertByTime(SubSeq(sorted, 1, Len(sorted) - 1), n), sorted[Len(sorted)])

RECURSIVE SortByTime(_)
SortByTime(raw) ==
    IF raw = <<>> THEN <<>>
    ELSE InsertByTime(SortByTime(SubSeq(raw, 1, Len(raw) - 1)), raw[Len(raw)])

\* max(cluster, key=midi_note): the first note of highest pitch
RECURSIVE BestOf(_)
BestOf(cluster) ==
    IF Len(cluster) = 1 THEN cluster[1]
    ELSE LET b == BestOf(SubSeq(cluster, 1, Len(cluster) - 1))
             l == cluster[Len(cluster)]
         IN IF l.midi_note > b.midi_note THEN l ELSE b

RECURSIVE ClusterFrom(_, _, _, _)
ClusterFrom(raw, i, cluster, melody) ==
    IF i > Len(raw) THEN Append(melody, BestOf(cluster))
    ELSE IF Abs(raw[i].time - cluster[Len(cluster)].time) <= cluster_eps
         THEN ClusterFrom(raw, i + 1, Append(cluster, raw[i]), melody)
         ELSE ClusterFrom(raw, i + 1, <<raw[i]>>, Append(melody, BestOf(cluster)))

\* mutant of the clustering: a note joins the cluster if it is near the
\* first note of the cluster
RECURSIVE ClusterFromFirst(_, _, _, _)
ClusterFromFirst(raw, i, cluster, melody) ==
    IF i > Len(raw) THEN Append(melody, BestOf(cluster))
    ELSE IF Abs(raw[i].time - cluster[1].time) <= cluster_eps
         THEN ClusterFromFirst(raw, i + 1, Append(cluster, raw[i]), melody)
         ELSE ClusterFromFirst(raw, i + 1, <<raw[i]>>, Append(melody, BestOf(cluster)))

CompressMelodyFirst(raw_notes) ==
    IF raw_notes = <<>> THEN <<>>
    ELSE ClusterFromFirst(raw_notes, 2, <<raw_notes[1]>>, <<>>)

CompressMelody(raw_notes) ==
    IF raw_notes = <<>> THEN <<>>
    ELSE ClusterFrom(raw_notes, 2, <<raw_notes[1]>>, <<>>)

ChartNote(n) ==
    [time |-> n.time, midi_note |-> n.midi_note, key |-> MidiNoteToKey(n.midi_note),
     hit |-> FALSE, judged |-> FALSE, score |-> 0]

\* mutant of BuildChartFromMidi: the raw notes are not sorted
BuildChartFromMidiUnsorted(file) ==
    LET melody == CompressMelody(file)
    IN [i \in 1..Len(melody) |-> ChartNote(melody[i])]

BuildChartFromMidi(file) ==
    LET melody == CompressMelody(SortByTime(file))
    IN [i \in 1..Len(melody) |-> ChartNote(melody[i])]

\* ------------------------------------------------------------------------
\* The MIDI files of the three difficulties
\* ------------------------------------------------------------------------
RawNote(t, m) == [time |-> t, midi_note |-> m]

\* easy: two notes of lane 3, 90 ms apart; medium: a file that cannot be
\* read (no notes); hard: one chord, its highest note on lane 2
DefaultMidiFiles ==
    [d \in Difficulties |->
        CASE d = "easy" -> <<RawNote(3, 63), RawNote(12, 68)>>
          [] d = "medium" -> <<>>
          [] OTHER -> <<RawNote(2, 61), RawNote(6, 67), RawNote(6, 64)>>]

\* Scenario A / B: 3 notes at 1.0 / 2.0 / 3.0 s on lanes 0 / 1 / 2
ScenarioMidiFiles ==
    [d \in Difficulties |-> <<RawNote(100, 60), RawNote(200, 61), RawNote(300, 62)>>]

\* ------------------------------------------------------------------------
\* State
\* ------------------------------------------------------------------------
VARIABLES
    clock,        \* time.monotonic(), in units of 10 ms
    midi_files,   \* RhythmMode.midi_paths and the files they name
    rhythm,       \* the fields of the RhythmMode object
    sched,        \* the AudioScheduler objects (worker threads)
    audio,        \* the AudioEngine: the MIDI notes that are sounding
    im,           \* the fields of the InputManager object
    frame_age,    \* main loop: clock units since the last iteration, capped
    fb_log,       \* colours passed to _start_feedback in this session
    pico,         \* the remote device: the globals of code.py, its clock
    link          \* the serial line to the host and PicoModeDisplay._rx_buffer

vars == <<clock, midi_files, rhythm, sched, audio, im, frame_age, fb_log, pico, link>>

\* number of AudioScheduler objects that can exist at once
MaxSched == 2

SchedIds == 1..MaxSched

\* The state the methods below read and write, threaded through a call chain.
World == [r |-> rhythm, s |-> sched, a |-> audio, im |-> im, fb |-> fb_log]

\* ------------------------------------------------------------------------
\* AudioEngine
\* ------------------------------------------------------------------------
NoteOnMidi(a, midi_note) == [a EXCEPT !.sounding = @ \cup {midi_note}]

StopAll(a) == [a EXCEPT !.sounding = {}]

\* ------------------------------------------------------------------------
\* AudioScheduler
\* ------------------------------------------------------------------------
\* AudioScheduler.__init__: a thread object that has not been started
NewScheduler(notes) ==
    [pc |-> "new", notes |-> [i \in 1..Len(notes) |-> [time |-> notes[i].time, midi_note |-> notes[i].midi_note]],
     start_time |-> None, idx |-> 0, stop_flag |-> FALSE, wake |-> 0, played |-> <<>>,
     stalled |-> FALSE, failed |-> 0]

SetStartTime(wk, start_time) == [wk EXCEPT !.start_time = start_time]

\* mutant of StartThread: the thread is not started
StartThreadNever(wk) == wk

\* Thread.start(): run() begins at its first loop
StartThread(wk) == [wk EXCEPT !.pc = "wait_start"]

SchedulerStop(wk) == [wk EXCEPT !.stop_flag = TRUE]

\* mutant of PlayNote: the worker plays the last note of the chart
PlayNoteLast(p) ==
    LET note == p.wk.notes[Len(p.wk.notes)]
    IN [wk |-> [p.wk EXCEPT !.idx = @ + 1, !.played = Append(@, note.midi_note), !.pc = "loop"],
        a |-> NoteOnMidi(p.a, note.midi_note)]

\* the worker body "play the melody note": note_on_midi, then idx += 1
PlayNote(p) ==
    LET note == p.wk.notes[p.wk.idx + 1]
    IN [wk |-> [p.wk EXCEPT !.idx = @ + 1, !.played = Append(@, note.midi_note), !.pc = "loop"],
        a |-> NoteOnMidi(p.a, note.midi_note)]

\* mutant of RunExit: the worker leaves without stop_all
RunExitSilent(p) == [p EXCEPT !.wk.pc = "done"]

\* the end of run(): stop_all if the stop flag is set, then the thread ends
RunExit(p) ==
    [wk |-> [p.wk EXCEPT !.pc = "done"],
     a |-> IF p.wk.stop_flag THEN StopAll(p.a) ELSE p.a]

\* mutant of RunStep: the first loop of run() waits for the start time
\* without looking at the stop flag
RunStepDeaf(p, clk) ==
    LET wk == p.wk
    IN CASE wk.pc = "wait_start" ->
              IF wk.start_time = None THEN p
              ELSE [p EXCEPT !.wk.pc = "loop"]
         [] wk.pc = "loop" ->
              IF ~wk.stop_flag /\ wk.start_time # None /\ wk.idx < Len(wk.notes)
              THEN [p EXCEPT !.wk.pc = "body"]
              ELSE [p EXCEPT !.wk.pc = "exit"]
         [] wk.pc = "body" ->
              LET song_time == clk - wk.start_time
                  wait == wk.notes[wk.idx + 1].time - song_time
              IN IF wait > 0
                 THEN [p EXCEPT !.wk.pc = "sleep", !.wk.wake = clk + Min(wait, SLEEP_MAX)]
                 ELSE PlayNote(p)
         [] wk.pc = "sleep" -> [p EXCEPT !.wk.pc = "loop"]
         [] wk.pc = "exit" -> RunExit(p)
         [] OTHER -> p

\* One step of AudioScheduler.run() at time clk; p = [wk, a].
RunStep(p, clk) ==
    LET wk == p.wk
    IN CASE wk.pc = "wait_start" ->
              IF ~wk.stop_flag /\ wk.start_time = None THEN p
              ELSE [p EXCEPT !.wk.pc = "loop"]
         [] wk.pc = "loop" ->
              IF ~wk.stop_flag /\ wk.start_time # None /\ wk.idx < Len(wk.notes)
              THEN [p EXCEPT !.wk.pc = "body"]
              ELSE [p EXCEPT !.wk.pc = "exit"]
         [] wk.pc = "body" ->
              LET song_time == clk - wk.start_time
                  wait == wk.notes[wk.idx + 1].time - song_time
              IN IF wait > 0
                 THEN [p EXCEPT !.wk.pc = "sleep", !.wk.wake = clk + Min(wait, SLEEP_MAX)]
                 ELSE PlayNote(p)
         [] wk.pc = "sleep" -> [p EXCEPT !.wk.pc = "loop"]
         [] wk.pc = "exit" -> RunExit(p)
         [] OTHER -> p

\* Thread.join(timeout=0.1) on a worker whose stop flag is set.  A thread
\* that was never started raises RuntimeError, which stop_audio ignores.  A
\* worker that is being scheduled runs until run() returns, well within the
\* timeout (it sleeps 10 ms at most).  A stalled worker (one the operating
\* system does not run for the next 0.1 s) is still alive when the timeout
\* expires: join returns and the worker goes on later.
RECURSIVE JoinRun(_, _)
JoinRun(p, clk) ==
    IF p.wk.pc \in {"new", "done"} THEN p ELSE JoinRun(RunStep(p, clk), clk)

Join(p, clk) ==
    IF p.wk.stalled /\ p.wk.pc \notin {"new", "done"}
    THEN [p EXCEPT !.wk.stalled = FALSE]
    ELSE JoinRun(p, clk)

\* ------------------------------------------------------------------------
\* RhythmMode
\* active_note is the position in chart_notes of the active note, 0 for None;
\* current_index counts the notes that have been made active so far.
\* ------------------------------------------------------------------------
\* RhythmMode.__init__
InitRhythm ==
    [difficulty |-> "easy", phase |-> "WAIT_COUNTDOWN", play_start |-> None,
     chart_notes |-> <<>>, current_index |-> 0, active_note |-> 0,
     score |-> 0, total_notes |-> 0, max_score |-> 0,
     feedback_until_song_time |-> None, feedback_color |-> NoColor,
     render_start_index |-> 0, audio_scheduler |-> 0]

StopAudio(W) ==
    LET id == W.r.audio_scheduler
        joined == Join([wk |-> SchedulerStop(W.s[id]), a |-> W.a], clock)
        W1 == IF id # 0
              THEN [W EXCEPT !.s[id] = joined.wk, !.a = joined.a, !.r.audio_scheduler = 0]
              ELSE W
    IN [W1 EXCEPT !.a = StopAll(@)]

OnExit(W) == [StopAudio(W) EXCEPT !.r.phase = "DONE"]

\* the chart is rebuilt and a scheduler is created for it (not started)
RebuildChart(W) ==
    LET chart == BuildChartFromMidi(midi_files[W.r.difficulty])
        id == CHOOSE i \in SchedIds : W.s[i].pc \in {"new", "done"}
        W1 == [W EXCEPT !.r.chart_notes = chart,
                        !.r.total_notes = Len(chart),
                        !.r.max_score = Len(chart) * 2,
                        !.r.current_index = 0,
                        !.r.active_note = 0,
                        !.r.render_start_index = 0,
                        !.r.feedback_color = NoColor,
                        !.r.feedback_until_song_time = None,
                        !.fb = <<>>]
    IN IF Len(chart) > 0
       THEN [W1 EXCEPT !.s[id] = NewScheduler(chart), !.r.audio_scheduler = id]
       ELSE [W1 EXCEPT !.r.audio_scheduler = 0]

\* mutant of Reset: the score of the last session is kept
ResetKeepScore(W) ==
    LET W1 == StopAudio(W)
        W2 == [W1 EXCEPT !.r.phase = "WAIT_COUNTDOWN", !.r.play_start = None]
    IN RebuildChart(W2)

Reset(W) ==
    LET W1 == StopAudio(W)
        W2 == [W1 EXCEPT !.r.phase = "WAIT_COUNTDOWN", !.r.play_start = None, !.r.score = 0]
    IN RebuildChart(W2)

\* mutant of StartPlayAfterCountdown: the phase is not looked at
StartPlayUnguarded(W, now) ==
    LET id == W.r.audio_scheduler
        W1 == [W EXCEPT !.r.phase = "PLAY",
                        !.r.play_start = now,
                        !.r.current_index = 0,
                        !.r.active_note = 0,
                        !.r.render_start_index = 0,
                        !.r.feedback_color = NoColor,
                        !.r.feedback_until_song_time = None,
                        !.fb = <<>>]
    IN IF id # 0
       THEN [W1 EXCEPT !.s[id] = StartThread(SetStartTime(@, now))]
       ELSE W1

StartPlayAfterCountdown(W, now) ==
    IF W.r.phase # "WAIT_COUNTDOWN" THEN W
    ELSE LET id == W.r.audio_scheduler
             W1 == [W EXCEPT !.r.phase = "PLAY",
                             !.r.play_start = now,
                             !.r.current_index = 0,
                             !.r.active_note = 0,
                             !.r.render_start_index = 0,
                             !.r.feedback_color = NoColor,
                             !.r.feedback_until_song_time = None,
                             !.fb = <<>>]
         IN IF id # 0
            THEN [W1 EXCEPT !.s[id] = StartThread(SetStartTime(@, now))]
            ELSE W1

SetDifficulty(W, difficulty) ==
    IF difficulty \notin DOMAIN midi_files THEN W
    ELSE RebuildChart(StopAudio([W EXCEPT !.r.difficulty = difficulty]))

StartFeedback(W, song_time, color) ==
    [W EXCEPT !.r.feedback_color = color,
              !.r.feedback_until_song_time = song_time + FEEDBACK_DURATION_SEC,
              !.fb = Append(@, color)]

\* mutant of HitScore: the perfect window is open at 80 ms
HitScoreStrict(dt) ==
    IF Abs(dt) < PERFECT_WINDOW_SEC THEN 2
    ELSE IF Abs(dt) <= GOOD_WINDOW_SEC THEN 1
    ELSE 0

\* the points of a hit at offset dt
HitScore(dt) ==
    IF Abs(dt) <= PERFECT_WINDOW_SEC THEN 2
    ELSE IF Abs(dt) <= GOOD_WINDOW_SEC THEN 1
    ELSE 0

\* the feedback a hit starts
HitFeedback(W, points, song_time) ==
    IF points = 2 THEN StartFeedback(W, song_time, FEEDBACK_COLOR_PERFECT)
    ELSE IF points = 1 THEN StartFeedback(W, song_time, FEEDBACK_COLOR_GOOD)
    ELSE W

\* mutant of AlreadyJudged: the guard is missing
AlreadyJudgedNever(note) == FALSE

\* the guard of _register_hit and of _register_miss
AlreadyJudged(note) == note.judged

RegisterHit(W, n, dt, song_time) ==
    IF AlreadyJudged(W.r.chart_notes[n]) THEN W
    ELSE LET points == HitScore(dt)
             W1 == [W EXCEPT !.r.chart_notes[n].judged = TRUE,
                             !.r.chart_notes[n].hit = TRUE,
                             !.r.chart_notes[n].score = points,
                             !.r.score = IF points > 0 THEN @ + points ELSE @]
         IN HitFeedback(W1, points, song_time)

\* mutant of RegisterMiss: a miss starts no feedback
RegisterMissSilent(W, n, song_time) ==
    IF AlreadyJudged(W.r.chart_notes[n]) THEN W
    ELSE [W EXCEPT !.r.chart_notes[n].judged = TRUE, !.r.chart_notes[n].score = 0]

RegisterMiss(W, n, song_time) ==
    IF AlreadyJudged(W.r.chart_notes[n]) THEN W
    ELSE StartFeedback([W EXCEPT !.r.chart_notes[n].judged = TRUE,
                                 !.r.chart_notes[n].score = 0],
                       song_time, FEEDBACK_COLOR_MISS)

\* mutant of HitTarget: the lane of the event is not compared
HitTargetAnyLane(r, key) == r.active_note

\* the note a NOTE_ON on lane key is applied to (0: none)
HitTarget(r, key) ==
    IF r.active_note = 0 THEN 0
    ELSE IF key # r.chart_notes[r.active_note].key THEN 0
    ELSE r.active_note

\* the loop over the events, from event i on
RECURSIVE HitLoop(_, _, _, _)
HitLoop(W, events, i, song_time) ==
    IF i > Len(events) THEN W
    ELSE LET ev == events[i]
             n == IF ev.type = "NOTE_ON" /\ ev.key # None THEN HitTarget(W.r, ev.key) ELSE 0
         IN IF n = 0 THEN HitLoop(W, events, i + 1, song_time)
            ELSE HitLoop(RegisterHit(W, n, song_time - W.r.chart_notes[n].time, song_time),
                         events, i + 1, song_time)

\* RhythmMode.handle_events; _time_fn() returns clock
\* mutant of HandleEvents: hits are accepted in every phase
HandleEventsAnyPhase(W, events) ==
    IF W.r.play_start = None THEN W
    ELSE HitLoop(W, events, 1, clock - W.r.play_start)

HandleEvents(W, events) ==
    IF W.r.phase # "PLAY" \/ W.r.play_start = None THEN W
    ELSE HitLoop(W, events, 1, clock - W.r.play_start)

\* mutant of UpdateActiveNote: the late note is retired but not judged
UpdateActiveNoteNoMiss(W, song_time) ==
    IF W.r.active_note = 0 THEN W
    ELSE IF song_time - W.r.chart_notes[W.r.active_note].time > MISS_LATE_SEC
         THEN [W EXCEPT !.r.active_note = 0]
         ELSE W

UpdateActiveNote(W, song_time) ==
    IF W.r.active_note = 0 THEN W
    ELSE LET n == W.r.active_note
             dt == song_time - W.r.chart_notes[n].time
         IN IF dt > MISS_LATE_SEC
            THEN LET W1 == IF ~W.r.chart_notes[n].judged
                           THEN RegisterMiss(W, n, song_time)
                           ELSE W
                 IN [W1 EXCEPT !.r.active_note = 0]
            ELSE W

RECURSIVE SkipOld(_, _, _)
SkipOld(chart, i, cutoff_time) ==
    IF i < Len(chart) /\ chart[i + 1].time < cutoff_time
    THEN SkipOld(chart, i + 1, cutoff_time)
    ELSE i

UpdateRenderStartIndex(W, song_time) ==
    [W EXCEPT !.r.render_start_index =
        SkipOld(W.r.chart_notes, @, song_time - (FALL_DURATION_SEC + MISS_LATE_SEC))]

\* mutant of SpawnNextNoteIfNeeded: a note becomes active after its time
SpawnNextNoteLate(W, song_time) ==
    IF W.r.active_note # 0 THEN W
    ELSE IF W.r.current_index >= Len(W.r.chart_notes) THEN W
    ELSE IF song_time > W.r.chart_notes[W.r.current_index + 1].time
         THEN [W EXCEPT !.r.active_note = W.r.current_index + 1,
                        !.r.current_index = @ + 1]
         ELSE W

SpawnNextNoteIfNeeded(W, song_time) ==
    IF W.r.active_note # 0 THEN W
    ELSE IF W.r.current_index >= Len(W.r.chart_notes) THEN W
    ELSE IF song_time >= W.r.chart_notes[W.r.current_index + 1].time - appear_lead
         THEN [W EXCEPT !.r.active_note = W.r.current_index + 1,
                        !.r.current_index = @ + 1]
         ELSE W

CheckDoneAndFinish(W) ==
    IF W.r.current_index < Len(W.r.chart_notes) THEN W
    ELSE IF W.r.active_note # 0 THEN W
    ELSE IF \E n \in 1..Len(W.r.chart_notes) : ~W.r.chart_notes[n].judged THEN W
    ELSE StopAudio([W EXCEPT !.r.phase = "DONE"])

\* RhythmMode.update (the LED rendering reads the state and changes none)
Update(W, now) ==
    IF W.r.phase \in {"WAIT_COUNTDOWN", "DONE"} THEN W
    ELSE LET W0 == IF W.r.play_start = None THEN [W EXCEPT !.r.play_start = now] ELSE W
             song_time == now - W0.r.play_start
             W1 == UpdateActiveNote(W0, song_time)
             W2 == UpdateRenderStartIndex(W1, song_time)
             W3 == SpawnNextNoteIfNeeded(W2, song_time)
         IN CheckDoneAndFinish(W3)

\* ------------------------------------------------------------------------
\* InputManager
\* ------------------------------------------------------------------------
mode_order == <<"menu", "piano", "rhythm", "song">>

\* _rhythm_postgame_stage is None
NoStage == ""

\* ------------------------------------------------------------------------
\* HighScoreStore: scores is _scores; ret is the value the last call of
\* update_if_better returned; seen is, per difficulty, the largest of the
\* loaded value and the scores submitted so far; calls counts the calls of
\* update_if_better and last holds the arguments of the last one.
\* ------------------------------------------------------------------------
\* HighScoreStore.__init__ and _load: the scores found in the file
LoadHighScores(loaded) ==
    [scores |-> loaded, ret |-> FALSE, seen |-> loaded, calls |-> 0, last |-> <<>>]

GetBest(hs, difficulty) == hs.scores[difficulty]

\* mutant of UpdateIfBetter: an equal score is not a record
UpdateIfStrictlyBetter(hs, difficulty, new_score) ==
    LET old == GetBest(hs, difficulty)
        hs1 == [hs EXCEPT !.seen[difficulty] = Max(@, new_score),
                          !.calls = @ + 1,
                          !.last = <<difficulty, new_score>>]
    IN IF new_score > old
       THEN [hs1 EXCEPT !.scores[difficulty] = new_score, !.ret = TRUE]
       ELSE [hs1 EXCEPT !.ret = FALSE]

UpdateIfBetter(hs, difficulty, new_score) ==
    LET old == GetBest(hs, difficulty)
        hs1 == [hs EXCEPT !.seen[difficulty] = Max(@, new_score),
                          !.calls = @ + 1,
                          !.last = <<difficulty, new_score>>]
    IN IF new_score >= old
       THEN [hs1 EXCEPT !.scores[difficulty] = new_score, !.ret = TRUE]
       ELSE [hs1 EXCEPT !.ret = FALSE]

\* the file high_scores.json when the program starts
LoadedScores == [d \in Difficulties |-> IF d = "easy" THEN 1 ELSE 0]

\* InputManager.__init__; postgame_sent is the list of the lines sent to the
\* remote display since the post-game sequence began; titled records that
\* the post-game sequence has ended (RHYTHM:BACK_TO_TITLE, reset) since the
\* rhythm mode was entered
InitIm ==
    [current_mode |-> "menu",
     high_scores |-> LoadHighScores(LoadedScores),
     postgame_started |-> FALSE, postgame_stage |-> NoStage, postgame_t0 |-> 0,
     last_score |-> 0, last_best |-> 0, last_max_score |-> 0, last_difficulty |-> "easy",
     postgame_sent |-> <<>>, acked |-> FALSE, titled |-> FALSE]

NoteOn(key, source) == [type |-> "NOTE_ON", key |-> key, mode_name |-> "", source |-> source]

ModeSwitch(mode_name) == [type |-> "MODE_SWITCH", key |-> None, mode_name |-> mode_name, source |-> "keyboard"]

NextMode == [type |-> "NEXT_MODE", key |-> None, mode_name |-> "", source |-> "button"]

SwitchMode(W, mode_name, now) ==
    IF mode_name = W.im.current_mode THEN W
    ELSE LET W1 == IF W.im.current_mode = "rhythm"
                   THEN [OnExit(W) EXCEPT !.im.postgame_started = FALSE,
                                          !.im.postgame_stage = NoStage]
                   ELSE W
             W2 == [W1 EXCEPT !.im.current_mode = mode_name]
         IN IF mode_name = "rhythm"
            THEN Reset([W2 EXCEPT !.im.postgame_started = FALSE,
                                  !.im.postgame_stage = NoStage,
                                  !.im.titled = FALSE])
            ELSE W2

CycleMode(W, now) ==
    LET idx == CHOOSE i \in 1..Len(mode_order) : mode_order[i] = W.im.current_mode
    IN SwitchMode(W, mode_order[(idx % Len(mode_order)) + 1], now)

\* first loop of InputManager.handle_events: the global events
RECURSIVE GlobalEvents(_, _, _, _)
GlobalEvents(W, events, i, now) ==
    IF i > Len(events) THEN W
    ELSE LET ev == events[i]
         IN IF ev.type = "MODE_SWITCH" /\ ev.mode_name # ""
            THEN GlobalEvents(SwitchMode(W, ev.mode_name, now), events, i + 1, now)
            ELSE IF ev.type = "NEXT_MODE"
            THEN GlobalEvents(CycleMode(W, now), events, i + 1, now)
            ELSE GlobalEvents(W, events, i + 1, now)

\* the difficulty a button selects in WAIT_COUNTDOWN ("" for none)
DifficultyOfKey(key) ==
    CASE key = 3 -> "easy"
      [] key = 2 -> "medium"
      [] key = 1 -> "hard"
      [] OTHER -> ""

IsDifficultyPress(ev) ==
    /\ ev.type = "NOTE_ON"
    /\ ev.source = "button"
    /\ ev.key # None
    /\ DifficultyOfKey(ev.key) # ""

IsButtonNote(ev) == ev.source = "button" /\ ev.type \in {"NOTE_ON", "NOTE_OFF"}

HandleRhythmEvents(W, events, now) ==
    IF W.r.phase = "WAIT_COUNTDOWN"
    THEN IF \E i \in 1..Len(events) : IsDifficultyPress(events[i])
         THEN LET first == CHOOSE i \in 1..Len(events) :
                               /\ IsDifficultyPress(events[i])
                               /\ \A j \in 1..(i - 1) : ~IsDifficultyPress(events[j])
              IN SetDifficulty(W, DifficultyOfKey(events[first].key))
         ELSE W
    ELSE IF W.r.phase = "PLAY"
    THEN LET button_events == SelectSeq(events, IsButtonNote)
         IN IF button_events # <<>> THEN HandleEvents(W, button_events) ELSE W
    ELSE W

ImHandleEvents(W, events, now) ==
    LET W1 == GlobalEvents(W, events, 1, now)
    IN IF W1.im.current_mode = "rhythm" THEN HandleRhythmEvents(W1, events, now) ELSE W1

\* ------------------------------------------------------------------------
\* Text lines.  A line is a sequence of symbols; a symbol is one character
\* (" ", "\r", "\n", "x") or a whole word of the protocol, written in
\* upper case, or the same word in lower case.
\* ------------------------------------------------------------------------
Whitespace == {" ", "\r", "\n"}

\* str.upper, symbol by symbol
UpperSymbol(c) ==
    CASE c = "rhythm:countdown_done" -> "RHYTHM:COUNTDOWN_DONE"
      [] c = "rhythm:best_score:" -> "RHYTHM:BEST_SCORE:"
      [] c = "x" -> "X"
      [] OTHER -> c

Upper(text) == [i \in DOMAIN text |-> UpperSymbol(text[i])]

\* str.strip
RECURSIVE StripLeft(_)
StripLeft(text) ==
    IF text # <<>> /\ Head(text) \in Whitespace THEN StripLeft(Tail(text)) ELSE text

RECURSIVE StripRight(_)
StripRight(text) ==
    IF text # <<>> /\ text[Len(text)] \in Whitespace
    THEN StripRight(SubSeq(text, 1, Len(text) - 1))
    ELSE text

Strip(text) == StripRight(StripLeft(text))

\* str.startswith for a prefix of one word
StartsWith(text, word) == text # <<>> /\ text[1] = word

\* the lines the remote device prints
CountdownDone == <<"RHYTHM:COUNTDOWN_DONE">>

BestScoreDone == <<"RHYTHM:BEST_SCORE_DONE">>

\* im.acked records that a RHYTHM:BEST_SCORE_DONE line was polled since the
\* post-game sequence began; the program keeps no such record
HandlePicoMessage(W, msg, now) ==
    LET text == Strip(msg)
        up == Upper(text)
    IN IF msg = <<>> \/ text = <<>> THEN W
       ELSE IF StartsWith(up, "RHYTHM:COUNTDOWN_DONE")
       THEN IF W.im.current_mode = "rhythm" THEN StartPlayAfterCountdown(W, now) ELSE W
       ELSE IF up = BestScoreDone THEN [W EXCEPT !.im.acked = TRUE]
       ELSE W

RECURSIVE PicoMessages(_, _, _, _)
PicoMessages(W, messages, i, now) ==
    IF i > Len(messages) THEN W
    ELSE PicoMessages(HandlePicoMessage(W, messages[i], now), messages, i + 1, now)

\* a line sent to the remote display; text is the numbers it carries
Line(cmd, text) == [cmd |-> cmd, text |-> text]

\* the text "<n>/<max_score>", or "<n>" when max_score is 0
ScoreText(n, max_score) == IF max_score > 0 THEN <<n, max_score>> ELSE <<n>>

\* pico_display.send_rhythm_*
PicoSend(W, line) == [W EXCEPT !.im.postgame_sent = Append(@, line)]

\* mutant of NextStage: the line is sent but the stage does not advance
NextStageStuck(W, line, stage, now) == [PicoSend(W, line) EXCEPT !.im.postgame_t0 = now]

\* the stage ends: one line is sent and the next stage begins at now
NextStage(W, line, stage, now) ==
    [PicoSend(W, line) EXCEPT !.im.postgame_stage = stage, !.im.postgame_t0 = now]

\* first time the timeline sees DONE: capture, update the record, banner
PostGameBegin(W, now) ==
    LET score == W.r.score
        difficulty == W.r.difficulty
        best_before == GetBest(W.im.high_scores, difficulty)
        hs == UpdateIfBetter(W.im.high_scores, difficulty, score)
        W1 == [W EXCEPT !.im.postgame_started = TRUE,
                        !.im.postgame_stage = "result_scroll",
                        !.im.postgame_t0 = now,
                        !.im.last_score = score,
                        !.im.last_max_score = W.r.max_score,
                        !.im.last_difficulty = difficulty,
                        !.im.high_scores = hs,
                        !.im.last_best = Max(best_before, score),
                        !.im.postgame_sent = <<>>,
                        !.im.acked = FALSE]
    IN PicoSend(W1, Line(IF hs.ret THEN "CHALLENGE_SUCCESS" ELSE "CHALLENGE_FAIL", <<>>))

\* mutant of PostGameTimeline: the record is updated on every tick that
\* sees DONE
PostGameEveryTick(W, now) ==
    IF W.r.phase # "DONE"
    THEN [W EXCEPT !.im.postgame_started = FALSE, !.im.postgame_stage = NoStage]
    ELSE PostGameBegin(W, now)

\* the last stage ends: back to the title, the session is reset
PostGameEnd(W, now) ==
    LET W1 == Reset(PicoSend(W, Line("BACK_TO_TITLE", <<>>)))
    IN [W1 EXCEPT !.im.postgame_started = FALSE, !.im.postgame_stage = NoStage,
                  !.im.titled = TRUE]

\* InputManager._maybe_run_rhythm_postgame_timeline
PostGameTimeline(W, now) ==
    LET stage == W.im.postgame_stage
        elapsed == now - W.im.postgame_t0
    IN IF W.r.phase # "DONE"
       THEN [W EXCEPT !.im.postgame_started = FALSE, !.im.postgame_stage = NoStage]
       ELSE IF ~W.im.postgame_started THEN PostGameBegin(W, now)
       ELSE CASE stage = "result_scroll" /\ elapsed >= RESULT_SCROLL_SEC ->
                     NextStage(W, Line("USER_SCORE_LABEL", <<>>), "user_label", now)
              [] stage = "user_label" /\ elapsed >= STAGE_SEC ->
                     NextStage(W, Line("USER_SCORE", ScoreText(W.im.last_score, W.im.last_max_score)),
                               "user_score", now)
              [] stage = "user_score" /\ elapsed >= STAGE_SEC ->
                     NextStage(W, Line("BEST_SCORE_LABEL", <<>>), "best_label", now)
              [] stage = "best_label" /\ elapsed >= STAGE_SEC ->
                     NextStage(W, Line("BEST_SCORE", ScoreText(W.im.last_best, W.im.last_max_score)),
                               "best_score", now)
              [] stage = "best_score" /\ elapsed >= STAGE_SEC -> PostGameEnd(W, now)
              [] OTHER -> W

ImUpdate(W, messages, now) ==
    LET W1 == PicoMessages(W, messages, 1, now)
    IN IF W1.im.current_mode = "rhythm" THEN PostGameTimeline(Update(W1, now), now) ELSE W1

\* one iteration of the main loop
MainLoop(W, events, messages, now) == ImUpdate(ImHandleEvents(W, events, now), messages, now)

\* ------------------------------------------------------------------------
\* The remote device (code.py).  Its time constants are in units of 10 ms
\* like the others; its clock is pico.now.  P is the record of its globals;
\* screen is what main_group shows (the position of a scrolling text is
\* left out); printed is the list of protocol lines it has printed; applied
\* is the list of the lines _handle_line has handled, each with the way it
\* came ("direct" from the serial line, "replay" from the queue) and the
\* time; received is the list of the lines read from the serial line, each
\* with the time and with the end of the marquee lock and of the score lock
\* that was active then (0 for none).
\* ------------------------------------------------------------------------
COUNTDOWN_TOTAL_SEC == 500
RHYTHM_TITLE_HOLD_SEC == 300
RHYTHM_ATTRACT_FRAME_SEC == 100
MENU_FRAME_DURATION == 60
MARQUEE_TOTAL_SEC == 600
USER_SCORE_HOLD_SEC == 500
BEST_SCORE_HOLD_SEC == 200
RESULT_HOLD_SEC == 300
PENDING_MAX == 32

MENU_BMP_PATHS == <<"PRESS", "BUTTON", "TO", "CHANGE", "MODE">>

RHYTHM_ATTRACT_PATHS == <<"select", "Mode_orange", "EASY", "MEDIUM", "HARD">>

NoLevel == ""

NoKind == ""

InitPico(small, large) ==
    [STATE |-> "IDLE", STATE_ENTER_TIME |-> 0, COUNTDOWN_DONE_SENT |-> FALSE,
     CURRENT_RHYTHM_LEVEL |-> NoLevel,
     menu_index |-> 0, menu_last_switch |-> 0,
     rhythm_attract_index |-> 0, rhythm_attract_last_switch |-> 0,
     MARQUEE_LOCK_UNTIL |-> 0, SCORE_LOCK_UNTIL |-> 0,
     LAST_SCORE_KIND |-> NoKind, BEST_SCORE_DONE_SENT |-> FALSE,
     PENDING_QUEUE |-> <<>>,
     font_small |-> small, font_large |-> large,
     screen |-> <<>>, now |-> 0, printed |-> <<>>, applied |-> <<>>, received |-> <<>>]

\* str.lower, symbol by symbol
LowerSymbol(c) ==
    CASE c = "EASY" -> "easy"
      [] c = "MENU" -> "menu"
      [] c = "X" -> "x"
      [] OTHER -> c

\* str.upper of the symbols the device is sent
UpperWord(c) ==
    CASE c = "easy" -> "EASY"
      [] c = "medium" -> "MEDIUM"
      [] c = "hard" -> "HARD"
      [] c = "menu" -> "MENU"
      [] c = "rhythm" -> "RHYTHM"
      [] c = "led:clear" -> "LED:CLEAR"
      [] c = "rhythm:challenge_fail" -> "RHYTHM:CHALLENGE_FAIL"
      [] OTHER -> UpperSymbol(c)

PicoUpper(line) == [i \in DOMAIN line |-> UpperWord(line[i])]

\* the words that begin with "RHYTHM:COUNTDOWN" and with "RHYTHM:INGAME"
CountdownWords == {"RHYTHM:COUNTDOWN", "RHYTHM:COUNTDOWN_DONE"}

IngameWords == {"RHYTHM:INGAME"}

StartsWithAny(text, words) == text # <<>> /\ text[1] \in words

\* mutant of set_state: entering the state one is in enters it anew
set_state_anew(P, new_state, t) ==
    [P EXCEPT !.STATE = new_state,
              !.STATE_ENTER_TIME = t,
              !.COUNTDOWN_DONE_SENT = IF new_state = "RHYTHM_COUNTDOWN" THEN FALSE ELSE @]

set_state(P, new_state, t) ==
    IF P.STATE = new_state /\ new_state # "RHYTHM_SCROLL" THEN P
    ELSE [P EXCEPT !.STATE = new_state,
                   !.STATE_ENTER_TIME = t,
                   !.COUNTDOWN_DONE_SENT = IF new_state = "RHYTHM_COUNTDOWN" THEN FALSE ELSE @]

clear_group(P) == [P EXCEPT !.screen = <<>>]

show_black_screen(P) == [P EXCEPT !.screen = <<"black">>]

show_fullscreen_bmp(P, path) == [P EXCEPT !.screen = <<"bmp", path>>]

\* font is whether the font given is loaded
show_center_text(P, text, font) ==
    [P EXCEPT !.screen = IF font THEN <<"text", text>> ELSE <<>>]

show_score_text(P, text) == show_center_text(P, text, P.font_small \/ P.font_large)

show_rhythm_level_hold(P) ==
    show_fullscreen_bmp(P, IF P.CURRENT_RHYTHM_LEVEL \in Difficulties
                           THEN UpperWord(P.CURRENT_RHYTHM_LEVEL) ELSE "RYTHM")

start_marquee(P, text, t) ==
    IF ~(P.font_small \/ P.font_large) THEN clear_group(P)
    ELSE [P EXCEPT !.screen = <<"marquee", text>>,
                   !.STATE = "RHYTHM_SCROLL",
                   !.STATE_ENTER_TIME = t,
                   !.MARQUEE_LOCK_UNTIL = t + MARQUEE_TOTAL_SEC]

enter_menu_mode(P, t) ==
    show_fullscreen_bmp([set_state(P, "MENU", t) EXCEPT !.menu_index = 0, !.menu_last_switch = t],
                        MENU_BMP_PATHS[1])

update_menu_mode(P, t) ==
    IF t - P.menu_last_switch >= MENU_FRAME_DURATION
    THEN LET index == (P.menu_index + 1) % Len(MENU_BMP_PATHS)
         IN show_fullscreen_bmp([P EXCEPT !.menu_last_switch = t, !.menu_index = index],
                                MENU_BMP_PATHS[index + 1])
    ELSE P

enter_rhythm_title(P, t) ==
    show_fullscreen_bmp(set_state([P EXCEPT !.CURRENT_RHYTHM_LEVEL = NoLevel,
                                            !.rhythm_attract_index = 0,
                                            !.rhythm_attract_last_switch = 0],
                                  "RHYTHM_TITLE", t),
                        "RYTHM")

enter_rhythm_attract(P, t) ==
    show_fullscreen_bmp(set_state([P EXCEPT !.rhythm_attract_index = 0,
                                            !.rhythm_attract_last_switch = t],
                                  "RHYTHM_ATTRACT", t),
                        RHYTHM_ATTRACT_PATHS[1])

update_rhythm_attract(P, t) ==
    IF t - P.rhythm_attract_last_switch >= RHYTHM_ATTRACT_FRAME_SEC
    THEN LET index == (P.rhythm_attract_index + 1) % Len(RHYTHM_ATTRACT_PATHS)
         IN show_fullscreen_bmp([P EXCEPT !.rhythm_attract_last_switch = t,
                                          !.rhythm_attract_index = index],
                                RHYTHM_ATTRACT_PATHS[index + 1])
    ELSE P

\* line.split(":", n)[n].strip(): what follows the command word
Argument(line) == Strip(Tail(line))

\* the text of an argument of one symbol ("" for none, "?" for several)
ArgumentText(line) ==
    LET arg == Argument(line)
    IN IF arg = <<>> THEN "" ELSE IF Len(arg) = 1 THEN arg[1] ELSE "?"

set_level_from_line(P, line) ==
    LET lvl == LowerSymbol(ArgumentText(line))
    IN [P EXCEPT !.CURRENT_RHYTHM_LEVEL = IF lvl \in Difficulties THEN lvl ELSE NoLevel]

\* mutant of cmd_is_urgent: a mode change waits like the others
cmd_is_urgent_no_mode(cmd_upper) ==
    \/ cmd_upper = <<"LED:CLEAR">>
    \/ StartsWith(cmd_upper, "RHYTHM:LEVEL:")
    \/ StartsWithAny(cmd_upper, CountdownWords)

cmd_is_urgent(cmd_upper) ==
    \/ cmd_upper = <<"LED:CLEAR">>
    \/ StartsWith(cmd_upper, "MODE:")
    \/ StartsWith(cmd_upper, "RHYTHM:LEVEL:")
    \/ StartsWithAny(cmd_upper, CountdownWords)

\* mutant of enqueue: a full queue drops the new line
enqueue_drop_newest(queue, line) ==
    IF Len(queue) >= PENDING_MAX THEN queue ELSE Append(queue, line)

enqueue(queue, line) ==
    Append(IF Len(queue) >= PENDING_MAX
           THEN SubSeq(queue, Len(queue) - (PENDING_MAX - 1) + 1, Len(queue))
           ELSE queue,
           line)

\* a static score screen of the kind given, held for hold
ScoreScreen(P, line, kind, hold, t) ==
    [show_score_text(set_state(P, "RHYTHM_POST", t), ArgumentText(line))
        EXCEPT !.SCORE_LOCK_UNTIL = t + hold,
               !.LAST_SCORE_KIND = kind,
               !.BEST_SCORE_DONE_SENT = FALSE]

handle_line(P, line, t) ==
    LET up == PicoUpper(line)
    IN CASE up = <<"LED:CLEAR">> -> show_black_screen(set_state(P, "LED_OFF", t))
         [] StartsWith(up, "MODE:") ->
              LET name == LowerSymbol(ArgumentText(line))
              IN CASE name = "menu" -> enter_menu_mode(P, t)
                   [] name = "piano" -> show_fullscreen_bmp(set_state(P, "PIANO", t), "AIR")
                   [] name = "rhythm" -> enter_rhythm_title(P, t)
                   [] name = "song" -> show_fullscreen_bmp(set_state(P, "SONG", t), "SONG")
                   [] OTHER -> show_center_text(set_state(P, "UNKNOWN", t), UpperWord(name),
                                                P.font_small)
         [] up = <<"RHYTHM:BACK_TO_TITLE">> -> enter_rhythm_title(P, t)
         [] StartsWith(up, "RHYTHM:LEVEL:") ->
              clear_group(set_state(set_level_from_line(P, line), "RHYTHM_COUNTDOWN", t))
         [] StartsWithAny(up, CountdownWords) ->
              clear_group(set_state(P, "RHYTHM_COUNTDOWN", t))
         [] StartsWithAny(up, IngameWords) ->
              show_rhythm_level_hold(set_state(P, "RHYTHM_INGAME", t))
         [] StartsWith(up, "RHYTHM:RESULT:") -> ScoreScreen(P, line, "RESULT", RESULT_HOLD_SEC, t)
         [] up = <<"RHYTHM:CHALLENGE_FAIL">> -> start_marquee(P, "CHALLENGE FAIL", t)
         [] up = <<"RHYTHM:CHALLENGE_SUCCESS">> -> start_marquee(P, "NEW RECORD!", t)
         [] up = <<"RHYTHM:USER_SCORE_LABEL">> -> start_marquee(P, "YOUR SCORE", t)
         [] StartsWith(up, "RHYTHM:USER_SCORE:") ->
              ScoreScreen(P, line, "USER", USER_SCORE_HOLD_SEC, t)
         [] up = <<"RHYTHM:BEST_SCORE_LABEL">> -> start_marquee(P, "BEST SCORE", t)
         [] StartsWith(up, "RHYTHM:BEST_SCORE:") ->
              ScoreScreen(P, line, "BEST", BEST_SCORE_HOLD_SEC, t)
         [] OTHER -> show_center_text(set_state(P, "UNKNOWN_CMD", t), up[1],
                                      P.font_small \/ P.font_large)

\* _handle_line, and the record of it in applied
Apply(P, line, how, t) ==
    [handle_line(P, line, t) EXCEPT !.applied = Append(@, <<line, how, t>>)]

marquee_locked(P, t) == P.STATE = "RHYTHM_SCROLL" /\ t < P.MARQUEE_LOCK_UNTIL

score_locked(P, t) == P.STATE = "RHYTHM_POST" /\ t < P.SCORE_LOCK_UNTIL

\* the characters the sanitizing of process_serial_command keeps
Visible(c) == c \notin {"\r", "\n", "NUL"}

\* the line without its control characters and its outer blanks
Sanitized(raw) == Strip(SelectSeq(raw, Visible))

\* raw is what readline returned, <<>> when no byte was available
process_serial_command(P, raw, t) ==
    LET line == Sanitized(raw)
        up == PicoUpper(line)
    IN IF StripRight(raw) = <<>> \/ line = <<>> THEN P
       ELSE IF (marquee_locked(P, t) \/ score_locked(P, t)) /\ ~cmd_is_urgent(up)
       THEN [P EXCEPT !.PENDING_QUEUE = enqueue(@, line)]
       ELSE Apply(P, line, "direct", t)

\* mutant of update_state: the acknowledgement follows every score screen
AckAnyKind(P, t) ==
    IF /\ P.STATE = "RHYTHM_POST"
       /\ P.LAST_SCORE_KIND # NoKind
       /\ ~P.BEST_SCORE_DONE_SENT
       /\ t >= P.SCORE_LOCK_UNTIL
    THEN [P EXCEPT !.printed = Append(@, BestScoreDone), !.BEST_SCORE_DONE_SENT = TRUE]
    ELSE P

\* update_state, first part: the acknowledgement of the best score
Ack(P, t) ==
    IF /\ P.STATE = "RHYTHM_POST"
       /\ P.LAST_SCORE_KIND = "BEST"
       /\ ~P.BEST_SCORE_DONE_SENT
       /\ t >= P.SCORE_LOCK_UNTIL
    THEN [P EXCEPT !.printed = Append(@, BestScoreDone), !.BEST_SCORE_DONE_SENT = TRUE]
    ELSE P

\* mutant of Replay: the newest queued command is replayed
ReplayNewest(P, t) ==
    IF ~marquee_locked(P, t) /\ ~score_locked(P, t) /\ P.PENDING_QUEUE # <<>>
    THEN Apply([P EXCEPT !.PENDING_QUEUE = SubSeq(@, 1, Len(@) - 1)],
               P.PENDING_QUEUE[Len(P.PENDING_QUEUE)], "replay", t)
    ELSE P

\* mutant of Replay: the locks do not hold the queue back
ReplayLocked(P, t) ==
    IF P.PENDING_QUEUE # <<>>
    THEN Apply([P EXCEPT !.PENDING_QUEUE = Tail(@)], Head(P.PENDING_QUEUE), "replay", t)
    ELSE P

\* update_state, second part: one queued command once the locks are over
Replay(P, t) ==
    IF ~marquee_locked(P, t) /\ ~score_locked(P, t) /\ P.PENDING_QUEUE # <<>>
    THEN Apply([P EXCEPT !.PENDING_QUEUE = Tail(@)], Head(P.PENDING_QUEUE), "replay", t)
    ELSE P

\* update_state, last part: the animation and the timers of the state
Animate(P, t) ==
    CASE P.STATE = "MENU" -> update_menu_mode(P, t)
      [] P.STATE = "RHYTHM_TITLE" ->
           IF t - P.STATE_ENTER_TIME >= RHYTHM_TITLE_HOLD_SEC THEN enter_rhythm_attract(P, t) ELSE P
      [] P.STATE = "RHYTHM_ATTRACT" -> update_rhythm_attract(P, t)
      [] P.STATE = "RHYTHM_COUNTDOWN" ->
           LET dt == t - P.STATE_ENTER_TIME
           IN IF dt < COUNTDOWN_TOTAL_SEC
              THEN IF P.font_large \/ P.font_small
                   THEN [P EXCEPT !.screen = <<"text", ToString(5 - (dt \div 100))>>]
                   ELSE clear_group(P)
              ELSE IF ~P.COUNTDOWN_DONE_SENT
              THEN show_rhythm_level_hold(
                       set_state([P EXCEPT !.printed = Append(@, CountdownDone),
                                           !.COUNTDOWN_DONE_SENT = TRUE],
                                 "RHYTHM_HOLD_LEVEL", t))
              ELSE P
      [] OTHER -> P

update_state(P, t) == Animate(Replay(Ack(P, t), t), t)

\* one iteration of the main loop of code.py; the clock samples of the
\* iteration (code.py 626, 530, 178) are one instant of pico.now
PicoLoop(P, raw) ==
    LET P1 == IF raw = <<>> THEN P
              ELSE [P EXCEPT !.received = Append(@,
                        [line |-> Sanitized(raw), t |-> P.now,
                         marquee |-> IF marquee_locked(P, P.now) THEN P.MARQUEE_LOCK_UNTIL ELSE 0,
                         score |-> IF score_locked(P, P.now) THEN P.SCORE_LOCK_UNTIL ELSE 0])]
    IN update_state(process_serial_command(P1, raw, P.now), P.now)

\* ------------------------------------------------------------------------
\* The serial line from the remote device (pico_mode_display.py).  A byte
\* is a symbol: "x" (a printable ASCII character), "\r", "\n", and the two
\* bytes "C3" "A9" of the UTF-8 form of one character, "E9".  waiting is
\* what the port holds (in_waiting bytes), rx_buffer the text kept between
\* calls; consumed is every byte read so far and msgs every line returned
\* so far, over all calls.
\* ------------------------------------------------------------------------
Bytes == {"x", "\r", "\n", "C3", "A9"}

InitLink == [waiting |-> <<>>, rx_buffer |-> <<>>, consumed |-> <<>>, msgs |-> <<>>]

\* bytes.decode("utf-8", errors="ignore"): a lead byte with its
\* continuation byte is one character, every other byte above ASCII is
\* dropped
RECURSIVE Decode(_)
Decode(data) ==
    IF data = <<>> THEN <<>>
    ELSE IF data[1] = "C3"
    THEN IF Len(data) >= 2 /\ data[2] = "A9"
         THEN <<"E9">> \o Decode(SubSeq(data, 3, Len(data)))
         ELSE Decode(Tail(data))
    ELSE IF data[1] = "A9" THEN Decode(Tail(data))
    ELSE <<data[1]>> \o Decode(Tail(data))

\* where the first "\n" of the text is (0 for none)
NewlineAt(text) ==
    IF \E i \in DOMAIN text : text[i] = "\n"
    THEN CHOOSE i \in DOMAIN text : text[i] = "\n" /\ \A j \in 1..(i - 1) : text[j] # "\n"
    ELSE 0

\* the loop of poll_messages over the buffer: [rest, msgs]
RECURSIVE ExtractLines(_, _)
ExtractLines(buffer, msgs) ==
    LET i == NewlineAt(buffer)
        line == Strip(SubSeq(buffer, 1, i - 1))
    IN IF i = 0 THEN [rest |-> buffer, msgs |-> msgs]
       ELSE ExtractLines(SubSeq(buffer, i + 1, Len(buffer)),
                         IF line = <<>> THEN msgs ELSE Append(msgs, line))

\* PicoModeDisplay.poll_messages on an open port
PollMessages(L) ==
    LET data == Decode(L.waiting)
        out == ExtractLines(L.rx_buffer \o data, <<>>)
    IN IF L.waiting = <<>> THEN L
       ELSE IF data = <<>> THEN [L EXCEPT !.waiting = <<>>, !.consumed = @ \o L.waiting]
       ELSE [L EXCEPT !.waiting = <<>>,
                      !.consumed = @ \o L.waiting,
                      !.rx_buffer = out.rest,
                      !.msgs = @ \o out.msgs]

\* ------------------------------------------------------------------------
\* Inputs
\* ------------------------------------------------------------------------
InputEvents == {NoteOn(k, "button") : k \in 2..3} \cup {ModeSwitch("rhythm"), ModeSwitch("menu")}

EventLists == UNION {[1..n -> InputEvents] : n \in 0..MaxEvents}

MessageLists == {<<>>, <<CountdownDone>>}

\* ------------------------------------------------------------------------
\* Actions
\* ------------------------------------------------------------------------
LastNoteTime(file) == IF file = <<>> THEN 0 ELSE SortByTime(file)[Len(file)].time

Horizon ==
    LET last == {LastNoteTime(midi_files[d]) : d \in Difficulties}
    IN (CHOOSE t \in last : \A u \in last : u <= t) + TailSlack

Install(W) ==
    /\ rhythm' = W.r
    /\ sched' = W.s
    /\ audio' = W.a
    /\ im' = W.im
    /\ fb_log' = W.fb

\* the worker is asleep, or is not running
Asleep(wk) == wk.pc \in {"new", "done", "sleep"} \/ wk.stalled

\* something reads the clock: a session is playing or a worker is running
Timing == rhythm.phase = "PLAY" \/ \E id \in SchedIds : sched[id].pc \notin {"new", "done"}

\* only the post-game timeline reads the clock: its stages last seconds
PostTiming == ~Timing /\ im.current_mode = "rhythm" /\ rhythm.phase = "DONE"

\* Time passes: one unit.  The worker's steps take no time; its sleep ends
\* at most WorkerLagMax after the wake-up time.  frame_age counts the units
\* since the last iteration of the main loop, up to cap.  The time that
\* passes while nothing reads the clock is left out of clock: every use of
\* time.monotonic() is a difference with the start time of a session.
\* While only the post-game timeline reads the clock, time passes
\* PostQuantum units at once, and the main loop, which sleeps 1/60 s, has
\* run in between.
TickWith(cap) ==
    /\ clock < (IF PostTiming THEN Horizon + PostSpan ELSE Horizon)
    /\ PostTiming => frame_age = 0
    /\ \A id \in SchedIds : Asleep(sched[id])
    /\ \A id \in SchedIds :
          (sched[id].pc = "sleep" /\ ~sched[id].stalled) => clock + 1 <= sched[id].wake + WorkerLagMax
    /\ clock' = IF Timing THEN clock + 1 ELSE IF PostTiming THEN clock + PostQuantum ELSE clock
    /\ frame_age' = Min(frame_age + 1, cap)
    /\ UNCHANGED <<pico, link, midi_files, rhythm, sched, audio, im, fb_log>>

Tick == TickWith(1)

\* main loop: poll the inputs, handle_events, update, sleep(1/60)
Frame(events, messages) ==
    /\ frame_age > 0
    /\ LET W1 == ImHandleEvents(World, events, clock)
       IN \/ messages = <<>>
          \/ clock <= MaxStartClock
          \/ W1.im.current_mode # "rhythm"
          \/ W1.r.phase # "WAIT_COUNTDOWN"
    /\ Install(MainLoop(World, events, messages, clock))
    /\ frame_age' = 0
    /\ UNCHANGED <<pico, link, clock, midi_files>>

\* one step of the worker thread
WorkerStep(id) ==
    /\ sched[id].pc \notin {"new", "done"}
    /\ ~sched[id].stalled
    /\ sched[id].pc = "sleep" => clock >= sched[id].wake
    /\ LET p == RunStep([wk |-> sched[id], a |-> audio], clock)
       IN /\ sched' = [sched EXCEPT ![id] = p.wk]
          /\ audio' = p.a
    /\ UNCHANGED <<pico, link, clock, midi_files, rhythm, im, frame_age, fb_log>>

InitWith(files) ==
    /\ clock = 0
    /\ midi_files = files
    /\ rhythm = InitRhythm
    /\ sched = [id \in SchedIds |-> NewScheduler(<<>>)]
    /\ audio = [sounding |-> {}]
    /\ im = InitIm
    /\ frame_age = 1
    /\ fb_log = <<>>
    /\ pico = InitPico(TRUE, TRUE)
    /\ link = InitLink

Init == InitWith(DefaultMidiFiles)

Next ==
    \/ Tick
    \/ \E events \in EventLists, messages \in MessageLists : Frame(events, messages)
    \/ \E id \in SchedIds : WorkerStep(id)

Spec == Init /\ [][Next]_vars

\* ------------------------------------------------------------------------
\* Scenarios A and B: the chart of 3 notes at 1.0 / 2.0 / 3.0 s, the main
\* loop runs a frame at least every MaxFrameGap units while the session
\* plays.  A: a NOTE_ON of the matching lane is delivered at exactly each
\* note's time.  B: no input is delivered.
\* ------------------------------------------------------------------------
InitScenario == InitWith(ScenarioMidiFiles)

EnterScenario ==
    /\ im.current_mode = "menu"
    /\ Frame(<<ModeSwitch("rhythm")>>, <<>>)

StartScenario ==
    /\ im.current_mode = "rhythm"
    /\ rhythm.phase = "WAIT_COUNTDOWN"
    /\ Frame(<<>>, <<CountdownDone>>)

\* the notes whose time is the current song time
DueNow == {n \in DOMAIN rhythm.chart_notes : rhythm.chart_notes[n].time = clock - rhythm.play_start}

ScenarioHits ==
    IF rhythm.phase = "PLAY" /\ DueNow # {}
    THEN <<NoteOn(rhythm.chart_notes[CHOOSE n \in DueNow : TRUE].key, "button")>>
    ELSE <<>>

FrameA ==
    /\ rhythm.phase \in {"PLAY", "DONE"}
    /\ Frame(ScenarioHits, <<>>)

TickA ==
    /\ rhythm.phase = "PLAY" => frame_age < MaxFrameGap
    /\ (rhythm.phase = "PLAY" /\ DueNow # {}) => frame_age = 0
    /\ TickWith(MaxFrameGap)

NextA ==
    \/ EnterScenario
    \/ StartScenario
    \/ FrameA
    \/ TickA
    \/ \E id \in SchedIds : WorkerStep(id)

SpecA == InitScenario /\ [][NextA]_vars

FrameB ==
    /\ rhythm.phase \in {"PLAY", "DONE"}
    /\ Frame(<<>>, <<>>)

TickB ==
    /\ rhythm.phase = "PLAY" => frame_age < MaxFrameGap
    /\ TickWith(MaxFrameGap)

NextB ==
    \/ EnterScenario
    \/ StartScenario
    \/ FrameB
    \/ TickB
    \/ \E id \in SchedIds : WorkerStep(id)

SpecB == InitScenario /\ [][NextB]_vars

\* ------------------------------------------------------------------------
\* Every interleaving of the main loop and the worker: the operating system
\* may leave a running worker unscheduled for longer than the join timeout
\* of stop_audio.  One stale worker at a time is followed.
\* ------------------------------------------------------------------------
\* one chart of two notes for every difficulty
StopMidiFiles == [d \in Difficulties |-> <<RawNote(2, 63), RawNote(11, 68)>>]

InitStop == InitWith(StopMidiFiles)

Stall(id) ==
    /\ sched[id].pc \notin {"new", "done"}
    /\ ~sched[id].stalled
    /\ ~sched[id].stop_flag
    /\ \A other \in SchedIds \ {id} : sched[other].pc \in {"new", "done"}
    /\ sched' = [sched EXCEPT ![id].stalled = TRUE]
    /\ UNCHANGED <<pico, link, clock, midi_files, rhythm, audio, im, frame_age, fb_log>>

\* the events that stop a worker: mode switches and a difficulty button
StopEvents == {NoteOn(2, "button"), ModeSwitch("rhythm"), ModeSwitch("menu")}

StopEventLists == UNION {[1..n -> StopEvents] : n \in 0..MaxEvents}

TickStop == clock < StopHorizon /\ Tick

NextStop ==
    \/ TickStop
    \/ \E events \in StopEventLists, messages \in MessageLists : Frame(events, messages)
    \/ \E id \in SchedIds : WorkerStep(id)
    \/ \E id \in SchedIds : Stall(id)

SpecStop == InitStop /\ [][NextStop]_vars

\* ------------------------------------------------------------------------
\* The high-score store alone: any file content within the bounds, then any
\* sequence of submitted scores.
\* ------------------------------------------------------------------------
StoredScores == [Difficulties -> 0..MaxBest]

InitHS ==
    /\ clock = 0
    /\ midi_files = DefaultMidiFiles
    /\ rhythm = InitRhythm
    /\ sched = [id \in SchedIds |-> NewScheduler(<<>>)]
    /\ audio = [sounding |-> {}]
    /\ \E loaded \in StoredScores : im = [InitIm EXCEPT !.high_scores = LoadHighScores(loaded)]
    /\ frame_age = 1
    /\ fb_log = <<>>
    /\ pico = InitPico(TRUE, TRUE)
    /\ link = InitLink

\* one call of update_if_better
Submit(difficulty, new_score) ==
    /\ im.high_scores.calls < MaxSubmits
    /\ im' = [im EXCEPT !.high_scores = UpdateIfBetter(@, difficulty, new_score)]
    /\ UNCHANGED <<pico, link, clock, midi_files, rhythm, sched, audio, frame_age, fb_log>>

NextHS == \E d \in Difficulties, s \in 0..(MaxBest + 1) : Submit(d, s)

SpecHS == InitHS /\ [][NextHS]_vars

\* ------------------------------------------------------------------------
\* The sound engine fails: a note_on_midi call of the worker raises.  run()
\* has no handler around the call, so the exception leaves run() and the
\* thread ends; failed counts the calls that raised.
\* ------------------------------------------------------------------------
NoteOnRaises(id) ==
    /\ sched[id].pc = "body"
    /\ ~sched[id].stalled
    /\ sched[id].failed < MaxFaults
    /\ sched[id].notes[sched[id].idx + 1].time <= clock - sched[id].start_time
    /\ sched' = [sched EXCEPT ![id].pc = "done", ![id].failed = @ + 1]
    /\ UNCHANGED <<pico, link, clock, midi_files, rhythm, audio, im, frame_age, fb_log>>

FaultEventLists == {<<>>, <<ModeSwitch("rhythm")>>}

NextFault ==
    \/ Tick
    \/ \E events \in FaultEventLists, messages \in MessageLists : Frame(events, messages)
    \/ \E id \in SchedIds : WorkerStep(id)
    \/ \E id \in SchedIds : NoteOnRaises(id)

SpecFault == InitStop /\ [][NextFault]_vars

\* ------------------------------------------------------------------------
\* Sessions in a row: the rhythm mode is entered, sessions are started by
\* the lines the remote device prints, the post-game sequence runs; no key
\* is hit.  The button of lane 2 selects medium, whose chart is empty.
\* ------------------------------------------------------------------------
PostEvents == {NoteOn(2, "button"), ModeSwitch("rhythm"), ModeSwitch("menu")}

PostEventLists == UNION {[1..n -> PostEvents] : n \in 0..MaxEvents}

\* what poll_messages may return: the lines of the remote device, the same
\* with other case, blanks or a tail, and a line of its log
PostLines ==
    {CountdownDone, BestScoreDone,
     <<" ", "rhythm:countdown_done", "\r">>,
     <<"RHYTHM:COUNTDOWN_DONE", "x">>,
     <<"x">>}

PostMessageLists == {<<>>} \cup {<<line>> : line \in PostLines}

FramePost(events, messages) ==
    /\ frame_age > 0
    /\ (rhythm.phase = "WAIT_COUNTDOWN" /\ messages # <<>>) => im.high_scores.calls < MaxGames
    /\ Install(MainLoop(World, events, messages, clock))
    /\ frame_age' = 0
    /\ UNCHANGED <<pico, link, clock, midi_files>>

\* time passes while nothing reads the clock
Idle ==
    /\ ~Timing
    /\ ~PostTiming
    /\ frame_age = 0
    /\ frame_age' = 1
    /\ UNCHANGED <<pico, link, clock, midi_files, rhythm, sched, audio, im, fb_log>>

NextPost ==
    \/ Tick
    \/ Idle
    \/ \E events \in PostEventLists, messages \in PostMessageLists : FramePost(events, messages)
    \/ \E id \in SchedIds : WorkerStep(id)

SpecPost == Init /\ [][NextPost]_vars

\* ------------------------------------------------------------------------
\* Vocabulary of the properties
\* ------------------------------------------------------------------------
Chart == rhythm.chart_notes

SongTime == clock - rhythm.play_start

\* this step stays within one session: the chart is not rebuilt
SameSession ==
    /\ rhythm.phase \in {"PLAY", "DONE"}
    /\ rhythm'.phase \in {"PLAY", "DONE"}
    /\ rhythm.play_start # None
    /\ rhythm'.play_start = rhythm.play_start
    /\ DOMAIN rhythm'.chart_notes = DOMAIN Chart

\* note n is judged by this step
NewlyJudged(n) == ~Chart[n].judged /\ rhythm'.chart_notes[n].judged

\* this step is an iteration of the main loop
FrameStep == frame_age > 0 /\ frame_age' = 0

\* this step ends a session because every note is judged
NaturalCompletion ==
    /\ rhythm.phase = "PLAY"
    /\ rhythm'.phase = "DONE"
    /\ im.current_mode = "rhythm"
    /\ im'.current_mode = "rhythm"

\* the notes that handle_events changes when it receives one NOTE_ON on key
JudgedByNoteOn(key) ==
    LET W2 == HandleEvents(World, <<NoteOn(key, "button")>>)
    IN {n \in DOMAIN Chart : W2.r.chart_notes[n] # Chart[n]}

RECURSIVE TotalScore(_)
TotalScore(chart) ==
    IF chart = <<>> THEN 0
    ELSE chart[Len(chart)].score + TotalScore(SubSeq(chart, 1, Len(chart) - 1))

\* ------------------------------------------------------------------------
\* C1: a note judged by a hit at offset dt = song_time - note.time gets 2
\* points if |dt| <= 80 ms, 1 point if 80 ms < |dt| <= 160 ms and 0
\* otherwise; a note judged as a miss gets 0; every score is 0, 1 or 2.
\* ------------------------------------------------------------------------
C1_ScoreMatchesWindows ==
    [][/\ \A n \in DOMAIN rhythm'.chart_notes :
              /\ rhythm'.chart_notes[n].score \in {0, 1, 2}
              /\ ~rhythm'.chart_notes[n].judged => rhythm'.chart_notes[n].score = 0
       /\ SameSession =>
              \A n \in DOMAIN Chart :
                  NewlyJudged(n) =>
                      LET adt == Abs(SongTime - Chart[n].time)
                          note == rhythm'.chart_notes[n]
                      IN note.score = IF ~note.hit THEN 0
                                      ELSE IF adt <= 8 THEN 2
                                      ELSE IF adt <= 16 THEN 1
                                      ELSE 0]_vars

\* a hit has been judged with 1 point, and a later note as a miss
C1_Witness ==
    /\ \E n \in DOMAIN Chart : Chart[n].judged /\ Chart[n].hit /\ Chart[n].score = 1
    /\ \E n \in DOMAIN Chart : Chart[n].judged /\ ~Chart[n].hit

\* ------------------------------------------------------------------------
\* C2: judging is idempotent: within a session no step changes a note that
\* is already judged, and the session score grows by exactly the points of
\* the notes judged in that step.
\* ------------------------------------------------------------------------
C2_JudgedOnce ==
    [][SameSession =>
          /\ \A n \in DOMAIN Chart : Chart[n].judged => rhythm'.chart_notes[n] = Chart[n]
          /\ rhythm'.score - rhythm.score = TotalScore(rhythm'.chart_notes) - TotalScore(Chart)]_vars

\* a note that a hit has judged is still the active note: later NOTE_ONs of
\* its lane and the miss sweep meet a judged note
C2_Witness ==
    /\ rhythm.phase = "PLAY"
    /\ rhythm.active_note # 0
    /\ Chart[rhythm.active_note].judged
    /\ Chart[rhythm.active_note].score > 0
    /\ SongTime > Chart[rhythm.active_note].time + 16

\* ------------------------------------------------------------------------
\* C3 (as claimed): a NOTE_ON on lane L at song_time s judges the unjudged
\* note of lane L nearest to s among those within 0.25 s, if there is one,
\* and no other note.
\* ------------------------------------------------------------------------
Candidates(key) ==
    {n \in DOMAIN Chart :
        /\ ~Chart[n].judged
        /\ Chart[n].key = key
        /\ Abs(SongTime - Chart[n].time) <= 25}

Nearest(key) ==
    {n \in Candidates(key) :
        \A m \in Candidates(key) : Abs(SongTime - Chart[n].time) <= Abs(SongTime - Chart[m].time)}

C3_NearestCandidate ==
    rhythm.phase = "PLAY" =>
        \A key \in KeyId :
            IF Candidates(key) = {} THEN JudgedByNoteOn(key) = {}
            ELSE JudgedByNoteOn(key) \subseteq Nearest(key) /\ Cardinality(JudgedByNoteOn(key)) = 1

\* C3 (amended): a NOTE_ON on lane L judges the active note if there is one,
\* it is on lane L and it is not judged yet, and no note otherwise.  The
\* active note is the last note made active, every note before it is judged.
C3_ActiveNoteOnly ==
    rhythm.phase = "PLAY" =>
        /\ \A key \in KeyId :
              JudgedByNoteOn(key) =
                  IF /\ rhythm.active_note # 0
                     /\ Chart[rhythm.active_note].key = key
                     /\ ~Chart[rhythm.active_note].judged
                  THEN {rhythm.active_note}
                  ELSE {}
        /\ rhythm.active_note # 0 =>
              /\ rhythm.active_note = rhythm.current_index
              /\ \A m \in 1..(rhythm.active_note - 1) : Chart[m].judged

\* the active note is judged and the next note of its lane, not judged, is
\* within 0.25 s: a NOTE_ON of that lane judges nothing
C3_Witness ==
    /\ rhythm.phase = "PLAY"
    /\ rhythm.active_note # 0
    /\ Chart[rhythm.active_note].judged
    /\ Candidates(Chart[rhythm.active_note].key) # {}
    /\ JudgedByNoteOn(Chart[rhythm.active_note].key) = {}

\* ------------------------------------------------------------------------
\* C4 (as claimed): after a frame update at song_time s in the playing
\* phase, every note with note.time + 0.25 s < s is judged.
\* ------------------------------------------------------------------------
C4_AllOverdueJudged ==
    (rhythm.phase = "PLAY" /\ frame_age = 0) =>
        \A n \in DOMAIN Chart : Chart[n].time + 25 < SongTime => Chart[n].judged

\* C4 (amended): a frame update at song_time s judges the note that was
\* active when the frame began if its deadline has passed (as a miss with
\* score 0 unless a hit judged it) and retires it; the notes before it are
\* judged; a frame judges at most one note.
C4_ActiveOverdueJudged ==
    [][(FrameStep /\ SameSession /\ rhythm.phase = "PLAY" /\ im'.current_mode = "rhythm") =>
          LET n == rhythm.active_note
          IN /\ Cardinality({m \in DOMAIN Chart : NewlyJudged(m)}) <= 1
             /\ \A m \in DOMAIN Chart : NewlyJudged(m) => m = n
             /\ (n # 0 /\ Chart[n].time + 25 < SongTime) =>
                   /\ rhythm'.chart_notes[n].judged
                   /\ rhythm'.active_note # n
                   /\ \A m \in 1..(n - 1) : Chart[m].judged
                   /\ (NewlyJudged(n) /\ ~rhythm'.chart_notes[n].hit) =>
                         rhythm'.chart_notes[n].score = 0 /\ rhythm'.feedback_color = "MISS"]_vars

\* a frame has swept the first note as a miss and made the second active
C4_Witness ==
    /\ rhythm.phase = "PLAY"
    /\ frame_age = 0
    /\ Len(Chart) = 2
    /\ Chart[1].judged /\ ~Chart[1].hit
    /\ rhythm.active_note = 2

\* ------------------------------------------------------------------------
\* C5: a hit that scores 0 still marks the note judged and still starts a
\* feedback signal: colour set, expiry = song_time + FEEDBACK_DURATION.
\* ------------------------------------------------------------------------
C5_ZeroHitStartsFeedback ==
    [][SameSession =>
          \A n \in DOMAIN Chart :
              (NewlyJudged(n) /\ rhythm'.chart_notes[n].hit /\ rhythm'.chart_notes[n].score = 0) =>
                  /\ rhythm'.feedback_color # NoColor
                  /\ rhythm'.feedback_until_song_time = SongTime + 25
                  /\ Len(fb_log') = Len(fb_log) + 1]_vars

\* ------------------------------------------------------------------------
\* C6 (Scenario A, under SpecA): the session ends with score 6 of 6.
\* ------------------------------------------------------------------------
C6_ScenarioA ==
    /\ rhythm.phase # "WAIT_COUNTDOWN" => rhythm.max_score = 6
    /\ rhythm.phase = "DONE" => rhythm.score = 6 /\ rhythm.max_score = 6

\* the session is over and every note was hit for 2 points
C6_Witness ==
    /\ rhythm.phase = "DONE"
    /\ Len(Chart) = 3
    /\ \A n \in DOMAIN Chart : Chart[n].hit /\ Chart[n].score = 2

\* ------------------------------------------------------------------------
\* C7 (Scenario B, under SpecB): once a frame has run at a song_time past
\* last_time + 0.25 s, the three notes are judged as misses, the score is
\* 0 of 6 and exactly three feedback signals were started, all with the
\* miss colour; the session does not end earlier.
\* ------------------------------------------------------------------------
C7_ScenarioB ==
    /\ rhythm.phase = "DONE" => SongTime > 325
    /\ (rhythm.phase = "DONE" \/ (rhythm.phase = "PLAY" /\ frame_age = 0 /\ SongTime > 325)) =>
          /\ rhythm.phase = "DONE"
          /\ Len(Chart) = 3
          /\ \A n \in DOMAIN Chart : Chart[n].judged /\ ~Chart[n].hit /\ Chart[n].score = 0
          /\ rhythm.score = 0
          /\ rhythm.max_score = 6
          /\ fb_log = <<"MISS", "MISS", "MISS">>
          /\ rhythm.feedback_color = "MISS"

\* the session is over, nothing was hit
C7_Witness ==
    /\ rhythm.phase = "DONE"
    /\ Len(Chart) = 3
    /\ \A n \in DOMAIN Chart : Chart[n].judged /\ ~Chart[n].hit
    /\ Len(fb_log) = 3

\* ------------------------------------------------------------------------
\* C8: a scheduler triggers note-on in chart order, each note at most once:
\* its index never decreases, it grows by one with each note-on, and the
\* note played is the one at the index.
\* ------------------------------------------------------------------------
\* The scheduler object in slot id is not replaced by this step.  Only the
\* main loop replaces it, and the object it installs is as its constructor
\* left it (not started, or started in the same iteration).
SameScheduler(id) ==
    \/ sched'[id] = sched[id]
    \/ ~FrameStep
    \/ sched'[id].pc \notin {"new", "wait_start"}

C8_PlayInChartOrder ==
    [][\A id \in SchedIds :
          /\ sched'[id].idx = Len(sched'[id].played)
          /\ sched'[id].idx <= Len(sched'[id].notes)
          /\ \A k \in 1..Len(sched'[id].played) : sched'[id].played[k] = sched'[id].notes[k].midi_note
          /\ SameScheduler(id) =>
                /\ sched'[id].idx \in {sched[id].idx, sched[id].idx + 1}
                /\ SubSeq(sched'[id].played, 1, sched[id].idx) = sched[id].played]_vars

\* a worker has played its whole chart of two notes
C8_Witness == \E id \in SchedIds : sched[id].idx = 2 /\ Len(sched[id].notes) = 2

C10_NoStopAllOnCompletion ==
    [][NaturalCompletion => audio'.sounding = audio.sounding]_vars

\* ------------------------------------------------------------------------
\* C11: after a forced stop of a running worker, under every interleaving,
\* a stop_all follows the worker's last note-on: at the moment a worker
\* whose stop flag is set terminates nothing is sounding, and a terminated
\* worker starts no further note.
\* ------------------------------------------------------------------------
\* the worker in slot id terminates in this step
Terminates(id) == sched[id].pc \notin {"new", "done"} /\ sched'[id].pc = "done"

C11_StopAllAfterLastNoteOn ==
    [][\A id \in SchedIds :
          /\ (Terminates(id) /\ sched'[id].stop_flag) => audio'.sounding = {}
          /\ (sched[id].pc = "done" /\ sched'[id].pc = "done") =>
                 sched'[id].played = sched[id].played]_vars

\* a worker that outlived the join has played a note after stop_audio
\* returned and has terminated
C11_Witness ==
    \E id \in SchedIds :
        /\ sched[id].pc = "done"
        /\ sched[id].stop_flag
        /\ sched[id].idx > 0
        /\ rhythm.audio_scheduler # id
        /\ rhythm.phase = "WAIT_COUNTDOWN"
        /\ im.current_mode = "rhythm"

\* ------------------------------------------------------------------------
\* C12: once stop_audio has returned, the worker it stopped makes no further
\* audio call, and at most one scheduler worker is alive at any time.
\* ------------------------------------------------------------------------
Alive(wk) == wk.pc \notin {"new", "done"}

\* the worker in slot id calls note_on_midi or stop_all in this step
AudioCallBy(id) ==
    /\ ~FrameStep
    /\ \/ sched'[id].idx # sched[id].idx
       \/ sched[id].pc = "exit" /\ sched[id].stop_flag /\ sched'[id].pc = "done"

C12_NoStaleWorker ==
    [][/\ \A id \in SchedIds : rhythm.audio_scheduler # id => ~AudioCallBy(id)
       /\ Cardinality({id \in SchedIds : Alive(sched'[id])}) <= 1]_vars

\* ------------------------------------------------------------------------
\* C13: the phase only moves forward, selection/countdown -> playing ->
\* done, or back to selection by a full reset: Done is not reached from the
\* selection/countdown phase without playing, and playing is not entered
\* from Done without a reset.
\* ------------------------------------------------------------------------
\* the session has just been reset and has not been played
FreshSelection(r) ==
    /\ r.phase = "WAIT_COUNTDOWN"
    /\ r.play_start = None
    /\ r.score = 0
    /\ r.current_index = 0
    /\ r.active_note = 0
    /\ \A n \in DOMAIN r.chart_notes : ~r.chart_notes[n].judged

\* playing has been entered in this step after a reset made in this step
StartedAfterReset ==
    /\ rhythm'.play_start = clock
    /\ rhythm'.score = 0
    /\ rhythm'.chart_notes # <<>>
    /\ \A n \in DOMAIN rhythm'.chart_notes : ~rhythm'.chart_notes[n].judged
    /\ \/ im.current_mode # "rhythm"
       \/ Chart # <<>> /\ \A n \in DOMAIN Chart : Chart[n].judged

C13_LinearPhases ==
    [][rhythm'.phase # rhythm.phase =>
          \/ FreshSelection(rhythm')
          \/ rhythm.phase = "WAIT_COUNTDOWN" /\ rhythm'.phase = "PLAY" /\ rhythm'.play_start = clock
          \/ rhythm.phase = "PLAY" /\ rhythm'.phase = "DONE"
          \/ rhythm.phase = "WAIT_COUNTDOWN" /\ rhythm'.phase = "DONE" /\ rhythm'.play_start = clock
          \/ rhythm.phase = "DONE" /\ rhythm'.phase = "PLAY" /\ StartedAfterReset]_vars

PlayBegins == rhythm'.phase = "PLAY" /\ (rhythm.phase # "PLAY" \/ rhythm'.play_start # rhythm.play_start)

C15_LeadIn ==
    [][PlayBegins =>
          /\ rhythm'.play_start > clock
          /\ rhythm'.audio_scheduler # 0 =>
                 sched'[rhythm'.audio_scheduler].start_time = rhythm'.play_start]_vars

\* ------------------------------------------------------------------------
\* C16: once every note is judged the engine stays in the playing phase
\* until song_time has passed the last note's time by the tail hold, and
\* only then moves to Done; never in the frame that judges the last note.
\* ------------------------------------------------------------------------
\* the tail hold of the specification (4 s); the program has no such value
TAIL_HOLD_SEC == 400

C16_TailHold ==
    [][NaturalCompletion =>
          /\ \A n \in DOMAIN Chart : Chart[n].judged
          /\ SongTime >= Chart[Len(Chart)].time + TAIL_HOLD_SEC]_vars

\* ------------------------------------------------------------------------
\* C17: in the Done phase, and in the selection/countdown phase, neither
\* input events nor frame updates change the phase, the score or a note's
\* judged / hit / score fields.
\* ------------------------------------------------------------------------
\* the judgment fields of the notes of a chart
Judgments(chart) == [n \in DOMAIN chart |-> <<chart[n].judged, chart[n].hit, chart[n].score>>]

C17_DoneIsTerminal ==
    rhythm.phase \in {"DONE", "WAIT_COUNTDOWN"} =>
        /\ Update(World, clock) = World
        /\ \A events \in EventLists :
              LET W1 == HandleEvents(World, events)
                  W2 == HandleRhythmEvents(World, events, clock)
              IN /\ W1 = World
                 /\ W2.r.phase = rhythm.phase
                 /\ W2.r.score = rhythm.score
                 /\ rhythm.phase = "DONE" => W2 = World
                 /\ rhythm.phase = "WAIT_COUNTDOWN" =>
                        \A n \in DOMAIN W2.r.chart_notes :
                            Judgments(W2.r.chart_notes)[n] = <<FALSE, FALSE, 0>>

\* the mode was left while a note was waiting for its hit: the engine is
\* in the Done phase with an unjudged active note
C17_Witness ==
    /\ rhythm.phase = "DONE"
    /\ rhythm.play_start # None
    /\ rhythm.active_note # 0
    /\ ~Chart[rhythm.active_note].judged
    /\ Abs(SongTime - Chart[rhythm.active_note].time) <= PERFECT_WINDOW_SEC

\* ------------------------------------------------------------------------
\* C18: update_if_better is monotonic per difficulty: the stored best is the
\* maximum of the loaded value and every submitted score, it never
\* decreases, and the call returns true exactly when the submitted score is
\* at least the best stored before the call.
\* ------------------------------------------------------------------------
C18_BestIsMax ==
    [][LET hs == im.high_scores
           after == im'.high_scores
       IN after.calls # hs.calls =>
             LET d == after.last[1]
                 s == after.last[2]
             IN /\ after.ret <=> (s >= hs.scores[d])
                /\ after.scores[d] = Max(hs.scores[d], s)
                /\ \A other \in Difficulties \ {d} : after.scores[other] = hs.scores[other]
                /\ \A any \in Difficulties : after.scores[any] >= hs.scores[any]
                /\ hs.scores = hs.seen => after.scores = after.seen]_vars

\* three scores were submitted and the last one, 2 for medium, was reported
\* as a record
C18_Witness ==
    LET hs == im.high_scores
    IN /\ hs.calls = 3
       /\ hs.ret
       /\ hs.scores = hs.seen
       /\ hs.last = <<"medium", 2>>
       /\ hs.scores = [d \in Difficulties |-> IF d = "medium" THEN 2 ELSE 1]

\* ------------------------------------------------------------------------
\* C19: a session that reaches Done while the rhythm mode is active gets,
\* on the tick that first sees Done, one read of score / max_score /
\* difficulty, one call of the high-score update and one banner:
\* CHALLENGE_SUCCESS when the update reported a record (score >= previous
\* best), CHALLENGE_FAIL otherwise; nothing of this happens a second time
\* for the session.
\* ------------------------------------------------------------------------
Banners == {"CHALLENGE_SUCCESS", "CHALLENGE_FAIL"}

\* the number of banners among the lines sent
BannerCount(sent) == Cardinality({i \in DOMAIN sent : sent[i].cmd \in Banners})

\* Done is seen in the rhythm mode after this step
DoneSeen == rhythm'.phase = "DONE" /\ im'.current_mode = "rhythm"

\* this step calls the high-score update
UpdateCalled == im'.high_scores.calls # im.high_scores.calls

\* Done had been seen before this step, for the same session
SeenBefore ==
    /\ rhythm.phase = "DONE"
    /\ im.current_mode = "rhythm"
    /\ rhythm'.play_start = rhythm.play_start

C19_OneUpdateOneBanner ==
    [][/\ (DoneSeen /\ ~SeenBefore) => UpdateCalled
       /\ DoneSeen => im'.postgame_started /\ BannerCount(im'.postgame_sent) = 1
       /\ (DoneSeen /\ SeenBefore) => ~UpdateCalled
       /\ UpdateCalled =>
             LET best_before == GetBest(im.high_scores, rhythm'.difficulty)
             IN /\ DoneSeen /\ ~SeenBefore
                /\ im'.high_scores.calls = im.high_scores.calls + 1
                /\ im'.high_scores.last = <<rhythm'.difficulty, rhythm'.score>>
                /\ im'.last_score = rhythm'.score
                /\ im'.last_max_score = rhythm'.max_score
                /\ im'.last_difficulty = rhythm'.difficulty
                /\ im'.high_scores.ret <=> (rhythm'.score >= best_before)
                /\ im'.postgame_sent =
                      <<Line(IF rhythm'.score >= best_before
                             THEN "CHALLENGE_SUCCESS" ELSE "CHALLENGE_FAIL", <<>>)>>]_vars

\* a session on easy ended below the stored best: the update was called
\* once, reported no record, and the only line sent is CHALLENGE_FAIL
C19_Witness ==
    /\ rhythm.phase = "DONE"
    /\ im.current_mode = "rhythm"
    /\ im.high_scores.calls = 1
    /\ ~im.high_scores.ret
    /\ im.last_score < LoadedScores[im.last_difficulty]
    /\ im.postgame_sent = <<Line("CHALLENGE_FAIL", <<>>)>>

\* ------------------------------------------------------------------------
\* C20: the post-game sequence sends, each once and in this order, the
\* banner, USER_SCORE_LABEL, USER_SCORE:<score>/<max>, BEST_SCORE_LABEL,
\* BEST_SCORE:<best>/<max>, BACK_TO_TITLE, with the values captured when
\* Done was first seen.
\* ------------------------------------------------------------------------
\* the lines that follow the banner, from the captured values, the two
\* numbers of a score line written as the text Text(n, max)
AfterBanner(m, Text(_, _)) ==
    <<Line("USER_SCORE_LABEL", <<>>),
      Line("USER_SCORE", Text(m.last_score, m.last_max_score)),
      Line("BEST_SCORE_LABEL", <<>>),
      Line("BEST_SCORE", Text(m.last_best, m.last_max_score)),
      Line("BACK_TO_TITLE", <<>>)>>

\* the text "<n>/<max>" whatever max is
SlashText(n, max_score) == <<n, max_score>>

\* the lines sent so far are the banner and then the lines of AfterBanner,
\* in order
InOrder(sent, m, Text(_, _)) ==
    /\ Len(sent) <= 6
    /\ Len(sent) >= 1 => sent[1].cmd \in Banners
    /\ \A i \in 2..Len(sent) : sent[i] = AfterBanner(m, Text)[i - 1]

PostGameEnds ==
    /\ Len(im.postgame_sent) = 5
    /\ Len(im'.postgame_sent) = 6
    /\ im'.postgame_sent[6].cmd = "BACK_TO_TITLE"

C21_WaitsForAck == [][PostGameEnds => im'.acked]_vars

\* ------------------------------------------------------------------------
\* C22: once the post-game sequence has sent RHYTHM:BACK_TO_TITLE and reset
\* the session, a session starts to play only after the rhythm mode has
\* been left and entered again.
\* ------------------------------------------------------------------------
C22_RestartNeedsReentry == [][PlayBegins => ~im'.titled]_vars

\* ------------------------------------------------------------------------
\* C30: a note-on that raises inside the scheduler worker is absorbed as a
\* no-op: the worker keeps running and still triggers every later note of
\* the chart at its time.
\* ------------------------------------------------------------------------
C30_NoteOnFailureAbsorbed ==
    [][/\ \A id \in SchedIds :
             sched'[id].failed > sched[id].failed =>
                 /\ sched'[id].pc # "done"
                 /\ sched'[id].idx = sched[id].idx + 1
       /\ (NaturalCompletion /\ rhythm.audio_scheduler # 0) =>
             LET wk == sched'[rhythm.audio_scheduler]
             IN Len(wk.played) + wk.failed = Len(wk.notes)]_vars

\* ------------------------------------------------------------------------
\* The remote device alone: the main loop of code.py, fed with lines.
\* ------------------------------------------------------------------------
MaxLines == 3
PicoQuantum == 300
PicoHorizon == 900

\* the lines the n-th read of the serial line may return; the lines that
\* carry an argument carry n, so that no two of them are equal
AllPicoLines(n) ==
    {<<"LED:CLEAR">>, <<"led:clear">>, <<"MODE:", "menu">>, <<"MODE:", "rhythm">>,
     <<"MODE:", "x">>, <<"RHYTHM:LEVEL:", "easy">>, <<"RHYTHM:COUNTDOWN">>,
     <<"RHYTHM:INGAME">>, <<"RHYTHM:BACK_TO_TITLE">>,
     <<"RHYTHM:USER_SCORE_LABEL">>, <<"rhythm:challenge_fail">>,
     <<"RHYTHM:USER_SCORE:", ToString(n)>>, <<"RHYTHM:BEST_SCORE:", ToString(n)>>,
     <<"RHYTHM:RESULT:", ToString(n)>>,
     <<"x", ToString(n)>>, <<" ", "LED:CLEAR", "\r", "\n">>, <<"\r", "\n">>}

\* the lines the device is fed with
PicoLines(n) ==
    {<<"LED:CLEAR">>, <<"RHYTHM:COUNTDOWN">>, <<"RHYTHM:USER_SCORE_LABEL">>,
     <<"RHYTHM:USER_SCORE:", ToString(n)>>, <<"RHYTHM:BEST_SCORE:", ToString(n)>>}

\* the device with its fonts loaded or not (code.py 89-99)
InitPicoSpec ==
    /\ clock = 0
    /\ midi_files = DefaultMidiFiles
    /\ rhythm = InitRhythm
    /\ sched = [id \in SchedIds |-> NewScheduler(<<>>)]
    /\ audio = [sounding |-> {}]
    /\ im = InitIm
    /\ frame_age = 1
    /\ fb_log = <<>>
    /\ \E loaded \in BOOLEAN : pico = InitPico(loaded, loaded)
    /\ link = InitLink

Host == <<clock, midi_files, rhythm, sched, audio, im, frame_age, fb_log, link>>

\* time passes on the device between two iterations of its loop
PicoWait ==
    /\ pico.now < PicoHorizon
    /\ pico' = [pico EXCEPT !.now = @ + PicoQuantum]
    /\ UNCHANGED Host

\* one iteration of the loop with nothing to read
PicoIdle ==
    /\ pico' = PicoLoop(pico, <<>>)
    /\ UNCHANGED Host

\* one iteration of the loop that reads a line
PicoRead ==
    /\ Len(pico.received) < MaxLines
    /\ \E raw \in PicoLines(Len(pico.received) + 1) : pico' = PicoLoop(pico, raw)
    /\ UNCHANGED Host

NextPico == PicoWait \/ PicoIdle \/ PicoRead

SpecPico == InitPicoSpec /\ [][NextPico]_vars

Locked == marquee_locked(pico, pico.now) \/ score_locked(pico, pico.now)

\* the urgent commands: LED:CLEAR, MODE:*, RHYTHM:LEVEL:*, RHYTHM:COUNTDOWN
UrgentCommand(up) ==
    \/ up = <<"LED:CLEAR">>
    \/ up # <<>> /\ up[1] \in {"MODE:", "RHYTHM:LEVEL:", "RHYTHM:COUNTDOWN"}

\* C24: in every state of the device and for every line it may read next,
\* an urgent command is handled in the iteration that reads it, lock or no
\* lock; a command that is not urgent and is read while a lock is active is
\* not handled in that iteration: it becomes the last entry of the pending
\* queue, and the state and the screen stay as they were.
C24_UrgentThroughLocks ==
    \A raw \in AllPicoLines(Len(pico.received) + 1) :
        LET line == Sanitized(raw)
            up == PicoUpper(line)
            after == PicoLoop(pico, raw)
            n == Len(pico.applied)
        IN line # <<>> =>
             /\ UrgentCommand(up) =>
                  /\ Len(after.applied) > n
                  /\ after.applied[n + 1] = <<line, "direct", pico.now>>
             /\ (Locked /\ ~UrgentCommand(up)) =>
                  /\ after.applied = pico.applied
                  /\ after.PENDING_QUEUE # <<>>
                  /\ after.PENDING_QUEUE[Len(after.PENDING_QUEUE)] = line
                  /\ after.STATE = pico.STATE
                  /\ after.screen = pico.screen

\* an urgent command was handled during the lock of a marquee, and a score
\* that had been read during that lock was handled from the queue
C24_Witness ==
    \E i \in 2..(Len(pico.applied) - 1) :
        /\ pico.applied[i - 1][1] = <<"RHYTHM:USER_SCORE_LABEL">>
        /\ pico.applied[i] = <<<<"LED:CLEAR">>, "direct", pico.applied[i][3]>>
        /\ pico.applied[i][3] < pico.applied[i - 1][3] + MARQUEE_TOTAL_SEC
        /\ pico.applied[i + 1][2] = "replay"
        /\ pico.applied[i + 1][1][1] = "RHYTHM:USER_SCORE:"

Count(seq, x) == Cardinality({i \in DOMAIN seq : seq[i] = x})

\* the lines handled so far, in the order they were handled
AppliedLines == [i \in DOMAIN pico.applied |-> pico.applied[i][1]]

\* where the line was handled (0 if it was not)
AppliedAt(line) ==
    IF \E i \in DOMAIN pico.applied : pico.applied[i][1] = line
    THEN CHOOSE i \in DOMAIN pico.applied : pico.applied[i][1] = line
    ELSE 0

\* the k-th line read was put in the queue: a command that is not urgent,
\* read during a lock
Queued(k) ==
    LET r == pico.received[k]
    IN /\ r.line # <<>>
       /\ ~UrgentCommand(PicoUpper(r.line))
       /\ (r.marquee > 0 \/ r.score > 0)

\* the k-th line read is the only one with its text
Single(k) == \A j \in DOMAIN pico.received : pico.received[j].line = pico.received[k].line => j = k

\* no urgent command was read after the k-th line
NoUrgentSince(k) ==
    \A j \in DOMAIN pico.received : j > k => ~UrgentCommand(PicoUpper(pico.received[j].line))

\* C25: a command that is not urgent and is read during the lock of a
\* marquee, with no urgent command read after it, is at every later moment
\* either once in the queue or handled once (never both, never lost); it is
\* handled from the queue, not before the end of that lock, after every
\* command queued before it and before every command queued after it.
C25_QueuedThenOnceInOrder ==
    \A k \in DOMAIN pico.received :
        LET r == pico.received[k]
        IN (Queued(k) /\ r.marquee > 0 /\ Single(k) /\ NoUrgentSince(k)) =>
             /\ Count(pico.PENDING_QUEUE, r.line) + Count(AppliedLines, r.line) = 1
             /\ AppliedAt(r.line) # 0 =>
                  /\ pico.applied[AppliedAt(r.line)][2] = "replay"
                  /\ pico.applied[AppliedAt(r.line)][3] >= r.marquee
             /\ \A j \in DOMAIN pico.received :
                    (Queued(j) /\ Single(j) /\ j < k /\ AppliedAt(r.line) # 0) =>
                        /\ AppliedAt(pico.received[j].line) # 0
                        /\ AppliedAt(pico.received[j].line) < AppliedAt(r.line)
             /\ \A j \in DOMAIN pico.received :
                    (Queued(j) /\ Single(j) /\ j > k /\ AppliedAt(pico.received[j].line) # 0) =>
                        /\ AppliedAt(r.line) # 0
                        /\ AppliedAt(r.line) < AppliedAt(pico.received[j].line)

\* two scores were read during the lock of a marquee and both have been
\* handled from the queue
C25_Witness ==
    \E k \in DOMAIN pico.received, j \in DOMAIN pico.received :
        /\ j < k
        /\ Queued(j) /\ Queued(k)
        /\ pico.received[j].marquee > 0 /\ pico.received[k].marquee > 0
        /\ pico.received[k].line[1] = "RHYTHM:BEST_SCORE:"
        /\ NoUrgentSince(j)
        /\ AppliedAt(pico.received[k].line) # 0
        /\ pico.PENDING_QUEUE = <<>>

\* ------------------------------------------------------------------------
\* The remote device flooded with scores during a lock.
\* ------------------------------------------------------------------------
MaxQueueLines == 34

\* a marquee or a result screen starts a lock, then scores follow
QueueLines(n) ==
    IF n = 1 THEN {<<"RHYTHM:USER_SCORE_LABEL">>, <<"RHYTHM:RESULT:", "1">>}
    ELSE {<<"RHYTHM:USER_SCORE:", ToString(n)>>}

\* the lines are read before the first of them leaves the queue
QueueRead ==
    /\ Len(pico.received) < MaxQueueLines
    /\ Len(pico.applied) <= 1
    /\ \E raw \in QueueLines(Len(pico.received) + 1) : pico' = PicoLoop(pico, raw)
    /\ UNCHANGED Host

NextQueue == PicoWait \/ PicoIdle \/ QueueRead

SpecQueue == Init /\ [][NextQueue]_vars

\* C26: the pending queue never holds more than PENDING_MAX commands; when
\* a command that is not urgent is read during a lock while the queue is
\* full, the queue loses exactly its oldest entry and gains the command as
\* its newest, the others keeping their order (and below capacity the
\* command is simply added at the end).
C26_QueueBounded ==
    /\ Len(pico.PENDING_QUEUE) <= PENDING_MAX
    /\ \A raw \in AllPicoLines(Len(pico.received) + 1) :
           LET line == Sanitized(raw)
               after == PicoLoop(pico, raw)
           IN (line # <<>> /\ Locked /\ ~UrgentCommand(PicoUpper(line))) =>
                after.PENDING_QUEUE =
                    IF Len(pico.PENDING_QUEUE) = PENDING_MAX
                    THEN Append(Tail(pico.PENDING_QUEUE), line)
                    ELSE Append(pico.PENDING_QUEUE, line)

\* the queue is full, its oldest entries have been evicted and the last
\* line read is its newest entry
C26_Witness ==
    /\ Len(pico.received) >= PENDING_MAX + 2
    /\ Len(pico.PENDING_QUEUE) = PENDING_MAX
    /\ pico.PENDING_QUEUE[1] = pico.received[Len(pico.received) - PENDING_MAX + 1].line
    /\ pico.PENDING_QUEUE[PENDING_MAX] = pico.received[Len(pico.received)].line

\* how long the lock lasts that handling the line starts (0 for no lock)
LockStarted(line) ==
    LET up == PicoUpper(line)
    IN CASE up \in {<<"RHYTHM:USER_SCORE_LABEL">>, <<"RHYTHM:BEST_SCORE_LABEL">>,
                    <<"RHYTHM:CHALLENGE_FAIL">>, <<"RHYTHM:CHALLENGE_SUCCESS">>} ->
                 IF pico.font_small \/ pico.font_large THEN MARQUEE_TOTAL_SEC ELSE 0
         [] StartsWith(up, "RHYTHM:USER_SCORE:") -> USER_SCORE_HOLD_SEC
         [] StartsWith(up, "RHYTHM:BEST_SCORE:") -> BEST_SCORE_HOLD_SEC
         [] StartsWith(up, "RHYTHM:RESULT:") -> RESULT_HOLD_SEC
         [] OTHER -> 0

\* C27: whatever line the loop reads (or none), its update_state leaves the
\* queue alone or removes exactly its head and handles that command, and
\* removes it only when neither the marquee lock nor the score lock is
\* active; and when a command handled from the queue starts a lock, the
\* next command handled from the queue is handled no sooner than that lock
\* ends.
C27_ReplayOneUnlocked ==
    /\ \A raw \in AllPicoLines(Len(pico.received) + 1) \cup {<<>>} :
           LET mid == process_serial_command(pico, raw, pico.now)
               after == update_state(mid, pico.now)
           IN \/ /\ after.PENDING_QUEUE = mid.PENDING_QUEUE
                 /\ after.applied = mid.applied
              \/ /\ mid.PENDING_QUEUE # <<>>
                 /\ after.PENDING_QUEUE = Tail(mid.PENDING_QUEUE)
                 /\ after.applied =
                        Append(mid.applied, <<Head(mid.PENDING_QUEUE), "replay", pico.now>>)
                 /\ ~marquee_locked(mid, pico.now)
                 /\ ~score_locked(mid, pico.now)
    /\ \A i \in 1..(Len(pico.applied) - 1) :
           (pico.applied[i][2] = "replay" /\ pico.applied[i + 1][2] = "replay") =>
               pico.applied[i + 1][3] >= pico.applied[i][3] + LockStarted(pico.applied[i][1])

\* a score handled from the queue started a lock, and the next command of
\* the queue has been handled after it
C27_Witness ==
    \E i \in 1..(Len(pico.applied) - 1) :
        /\ pico.applied[i][2] = "replay"
        /\ pico.applied[i + 1][2] = "replay"
        /\ LockStarted(pico.applied[i][1]) > 0

\* the best-score commands handled whose hold is over
BestScoresHeld ==
    {i \in DOMAIN pico.applied :
        /\ StartsWith(PicoUpper(pico.applied[i][1]), "RHYTHM:BEST_SCORE:")
        /\ pico.applied[i][3] + BEST_SCORE_HOLD_SEC <= pico.now}

\* C28: at every moment the device has printed RHYTHM:BEST_SCORE_DONE at
\* most as many times as it has handled RHYTHM:BEST_SCORE commands whose
\* hold has elapsed: one acknowledgement at most for each, none before the
\* hold is over, none for a user score or a result.
C28_AckOncePerBestScore ==
    Count(pico.printed, BestScoreDone) <= Cardinality(BestScoresHeld)

\* an acknowledgement has been printed, and a user score was handled too
C28_Witness ==
    /\ Count(pico.printed, BestScoreDone) = 1
    /\ \E i \in DOMAIN pico.applied : pico.applied[i][1][1] = "RHYTHM:USER_SCORE:"

\* the command vocabulary of the remote device
InVocabulary(up) ==
    \/ up \in {<<"LED:CLEAR">>, <<"RHYTHM:BACK_TO_TITLE">>, <<"RHYTHM:CHALLENGE_FAIL">>,
               <<"RHYTHM:CHALLENGE_SUCCESS">>, <<"RHYTHM:USER_SCORE_LABEL">>,
               <<"RHYTHM:BEST_SCORE_LABEL">>}
    \/ up # <<>> /\ up[1] \in {"MODE:", "RHYTHM:LEVEL:", "RHYTHM:COUNTDOWN", "RHYTHM:INGAME",
                               "RHYTHM:RESULT:", "RHYTHM:USER_SCORE:", "RHYTHM:BEST_SCORE:"}

\* on the host a line that is not RHYTHM:COUNTDOWN_DONE (in any case, with
\* any blanks around it) changes neither mode, phase nor post-game stage
C29_HostIgnoresUnknown ==
    \A msg \in PostLines :
        LET after == HandlePicoMessage(World, msg, clock)
        IN Upper(Strip(msg)) # CountdownDone =>
             /\ after.im.current_mode = im.current_mode
             /\ after.r.phase = rhythm.phase
             /\ after.im.postgame_stage = im.postgame_stage

\* on the remote device an iteration that reads a line outside the
\* vocabulary ends as the iteration that reads nothing
C29_PicoIgnoresUnknown ==
    \A raw \in AllPicoLines(Len(pico.received) + 1) :
        LET line == Sanitized(raw)
            after == PicoLoop(pico, raw)
            idle == PicoLoop(pico, <<>>)
        IN (line # <<>> /\ ~InVocabulary(PicoUpper(line))) =>
             /\ after.STATE = idle.STATE
             /\ after.screen = idle.screen
             /\ after.MARQUEE_LOCK_UNTIL = idle.MARQUEE_LOCK_UNTIL
             /\ after.SCORE_LOCK_UNTIL = idle.SCORE_LOCK_UNTIL
             /\ after.PENDING_QUEUE = idle.PENDING_QUEUE

\* C29: a line that is unknown to the device that receives it leaves that
\* device's state unchanged: the host keeps its mode, its phase and its
\* post-game stage; the remote device keeps its display state, its locks
\* and its queue.
C29_UnknownLineIgnored == C29_HostIgnoresUnknown /\ C29_PicoIgnoresUnknown

\* ------------------------------------------------------------------------
\* The serial line alone: bytes arrive, the host polls.
\* ------------------------------------------------------------------------
MaxStream == 5

NotLink == <<clock, midi_files, rhythm, sched, audio, im, frame_age, fb_log, pico>>

\* one more byte reaches the port
ByteArrives ==
    /\ Len(link.consumed) + Len(link.waiting) < MaxStream
    /\ \E b \in Bytes : link' = [link EXCEPT !.waiting = Append(@, b)]
    /\ UNCHANGED NotLink

\* the host polls the port
Poll ==
    /\ link' = PollMessages(link)
    /\ UNCHANGED NotLink

NextLine == ByteArrives \/ Poll

SpecLine == Init /\ [][NextLine]_vars

\* the lines of the bytes read so far, taken as one stream
StreamLines == ExtractLines(Decode(link.consumed), <<>>)

\* C23: whatever the chunks were, the lines returned so far are the
\* trimmed, non-empty, newline-terminated lines of the bytes read so far,
\* in order and each once, and the buffer holds the unterminated rest.
C23_LineFraming ==
    /\ link.msgs = StreamLines.msgs
    /\ link.rx_buffer = StreamLines.rest

\* the same for a stream of ASCII bytes
AsciiLineFraming ==
    (\A i \in DOMAIN link.consumed : link.consumed[i] \notin {"C3", "A9"}) => C23_LineFraming

\* ------------------------------------------------------------------------
\* The chart build alone: any MIDI file of a few notes, built and rebuilt.
\* ------------------------------------------------------------------------
MaxRaw == 3
MaxRawTime == 12

RawPitches == {61, 64}

\* the times of the raw notes: every 20 ms
RawTimes == {t \in 0..MaxRawTime : t % 2 = 0}

RawLists ==
    UNION {[1..n -> {RawNote(t, m) : t \in RawTimes, m \in RawPitches}] : n \in 0..MaxRaw}

InitChart == \E file \in RawLists : InitWith([d \in Difficulties |-> file])

ChartReset ==
    /\ Install(Reset(World))
    /\ UNCHANGED <<pico, link, clock, midi_files, frame_age>>

ChartSetDifficulty ==
    /\ \E d \in Difficulties : Install(SetDifficulty(World, d))
    /\ UNCHANGED <<pico, link, clock, midi_files, frame_age>>

NextChart == ChartReset \/ ChartSetDifficulty

SpecChart == InitChart /\ [][NextChart]_vars

\* the chart has been built from the file of the difficulty
Built == rhythm.total_notes = Len(rhythm.chart_notes) /\ rhythm.max_score = 2 * Len(rhythm.chart_notes)

\* the raw notes of the current difficulty, sorted by time
SortedRaw == SortByTime(midi_files[rhythm.difficulty])

\* the clusters: the maximal runs of the sorted notes in which each note is
\* at most cluster_eps after the one before it; [from, to] of every run
RECURSIVE Runs(_, _, _)
Runs(sorted, from, i) ==
    IF sorted = <<>> THEN <<>>
    ELSE IF i = Len(sorted) THEN <<<<from, i>>>>
    ELSE IF sorted[i + 1].time - sorted[i].time <= cluster_eps THEN Runs(sorted, from, i + 1)
    ELSE <<<<from, i>>>> \o Runs(sorted, i + 1, i + 1)

Clusters == Runs(SortedRaw, 1, 1)

\* C31: in the chart built from any list of raw notes no two notes are
\* cluster_eps (80 ms) or less apart, and the chart holds one note for each
\* cluster, a note of that cluster of the highest pitch in it.
C31_ClustersMerged ==
    (rhythm.chart_notes # <<>> \/ rhythm.total_notes = Len(SortedRaw)) =>
        /\ \A a, b \in DOMAIN rhythm.chart_notes :
               a # b => Abs(rhythm.chart_notes[a].time - rhythm.chart_notes[b].time) > cluster_eps
        /\ Len(rhythm.chart_notes) = Len(Clusters)
        /\ \A k \in DOMAIN rhythm.chart_notes :
               LET run == Clusters[k][1]..Clusters[k][2]
                   kept == rhythm.chart_notes[k]
               IN /\ \E i \in run : /\ SortedRaw[i].time = kept.time
                                    /\ SortedRaw[i].midi_note = kept.midi_note
                  /\ \A i \in run : SortedRaw[i].midi_note <= kept.midi_note

\* a chart of two notes, the first of them not the first note of its
\* cluster
C31_Witness ==
    /\ Len(rhythm.chart_notes) = 2
    /\ Clusters[1][2] > Clusters[1][1]
    /\ rhythm.chart_notes[1].time > SortedRaw[1].time

\* C32: after every build or rebuild the chart is in ascending order of
\* note time.
C32_ChartSorted ==
    \A a, b \in DOMAIN rhythm.chart_notes :
        a < b => rhythm.chart_notes[a].time <= rhythm.chart_notes[b].time

\* a chart of two notes built from a file that is not in order of time,
\* the first note kept from the end of its cluster
C32_Witness ==
    /\ Len(rhythm.chart_notes) = 2
    /\ \E i \in 1..(Len(midi_files[rhythm.difficulty]) - 1) :
           midi_files[rhythm.difficulty][i].time > midi_files[rhythm.difficulty][i + 1].time
    /\ rhythm.chart_notes[1].time = SortedRaw[Clusters[1][2]].time
    /\ Clusters[1][2] > Clusters[1][1]

\* C33: as long as the last line read is an urgent command, that command
\* is the last one handled: no command read before it (none of the queue)
\* is handled after it.
C33_UrgentNotOverwritten ==
    LET n == Len(pico.received)
    IN (n > 0 /\ UrgentCommand(PicoUpper(pico.received[n].line))) =>
         /\ pico.applied # <<>>
         /\ pico.applied[Len(pico.applied)] =
                <<pico.received[n].line, "direct", pico.received[n].t>>

\* the k-th line read is a command that is not urgent
NotUrgent(k) ==
    pico.received[k].line # <<>> /\ ~UrgentCommand(PicoUpper(pico.received[k].line))

\* C34: the commands that are not urgent are handled in the order they
\* were read: when one of them has been handled, every one read before it
\* has been handled, and earlier.
C34_NonUrgentInOrder ==
    \A j, k \in DOMAIN pico.received :
        (j < k /\ NotUrgent(j) /\ NotUrgent(k) /\ Single(j) /\ Single(k)
           /\ AppliedAt(pico.received[k].line) # 0) =>
            /\ AppliedAt(pico.received[j].line) # 0
            /\ AppliedAt(pico.received[j].line) < AppliedAt(pico.received[k].line)

\* the best-score commands handled so far
BestScoresApplied ==
    {i \in DOMAIN pico.applied : StartsWith(PicoUpper(pico.applied[i][1]), "RHYTHM:BEST_SCORE:")}

\* update_state will print the acknowledgement once the hold is over
AckPending ==
    pico.STATE = "RHYTHM_POST" /\ pico.LAST_SCORE_KIND = "BEST" /\ ~pico.BEST_SCORE_DONE_SENT

\* C38: no acknowledgement is ever lost: every RHYTHM:BEST_SCORE command
\* handled has been acknowledged, except the last one while its
\* acknowledgement is still to come; so each is followed by its
\* RHYTHM:BEST_SCORE_DONE, whatever else is read meanwhile.
C38_AckNeverLost ==
    Cardinality(BestScoresApplied) =
        Count(pico.printed, BestScoreDone) + (IF AckPending THEN 1 ELSE 0)

\* C37: in every state of the device and for every line its loop may read
\* next (or none), the iteration prints RHYTHM:COUNTDOWN_DONE at most once,
\* and only if the device was counting down and the countdown duration has
\* elapsed since it entered that state, and it then is in the level-hold
\* state; a RHYTHM:LEVEL or RHYTHM:COUNTDOWN read while counting down
\* changes nothing of the countdown: the state, the time of entry and the
\* lines printed are those of an iteration that reads nothing, so that
\* each entry is acknowledged once.
C37_CountdownDoneOnce ==
    \A raw \in AllPicoLines(Len(pico.received) + 1) \cup {<<>>} :
        LET after == PicoLoop(pico, raw)
            idle == PicoLoop(pico, <<>>)
            up == PicoUpper(Sanitized(raw))
            more == Count(after.printed, CountdownDone) - Count(pico.printed, CountdownDone)
        IN /\ more \in {0, 1}
           /\ more = 1 =>
                /\ pico.STATE = "RHYTHM_COUNTDOWN"
                /\ pico.now >= pico.STATE_ENTER_TIME + COUNTDOWN_TOTAL_SEC
                /\ after.STATE = "RHYTHM_HOLD_LEVEL"
           /\ (pico.STATE = "RHYTHM_COUNTDOWN"
                 /\ (StartsWith(up, "RHYTHM:LEVEL:") \/ up = <<"RHYTHM:COUNTDOWN">>)) =>
                /\ after.STATE = idle.STATE
                /\ after.STATE_ENTER_TIME = idle.STATE_ENTER_TIME
                /\ after.printed = idle.printed

\* the countdown was asked for twice, the second time while it ran, and
\* one acknowledgement has been printed
C37_Witness ==
    /\ Count(pico.printed, CountdownDone) = 1
    /\ pico.STATE = "RHYTHM_HOLD_LEVEL"
    /\ \E i \in 1..(Len(pico.applied) - 1) :
           /\ pico.applied[i][1] = <<"RHYTHM:COUNTDOWN">>
           /\ pico.applied[i + 1][1] = <<"RHYTHM:COUNTDOWN">>
           /\ pico.applied[i + 1][3] > pico.applied[i][3]
           /\ pico.applied[i + 1][3] < pico.applied[i][3] + COUNTDOWN_TOTAL_SEC

\* ------------------------------------------------------------------------
\* The scheduler on its own: one AudioScheduler over a chart of one or two
\* notes, its caller may call start(), set_start_time() and stop() at any
\* moment and in any order.  The operating system runs a thread that can
\* run (weak fairness of its steps) and time passes (weak fairness of the
\* clock); nothing is assumed of the caller.
\* ------------------------------------------------------------------------
MaxWorkerNotes == 2
MaxNoteTime == 3
\* the caller acts until here; the clock goes on while the worker sleeps
WorkerHorizon == 3

WorkerCharts ==
    {c \in UNION {[1..n -> {RawNote(t, 60) : t \in 0..MaxNoteTime}] : n \in 1..MaxWorkerNotes} :
        \A i \in 1..(Len(c) - 1) : c[i].time <= c[i + 1].time}

InitWorker ==
    \E chart \in WorkerCharts :
        /\ clock = 0
        /\ midi_files = [d \in Difficulties |-> chart]
        /\ rhythm = InitRhythm
        /\ sched = [id \in SchedIds |-> IF id = 1 THEN NewScheduler(chart) ELSE NewScheduler(<<>>)]
        /\ audio = [sounding |-> {}]
        /\ im = InitIm
        /\ frame_age = 1
        /\ fb_log = <<>>
        /\ pico = InitPico(TRUE, TRUE)
        /\ link = InitLink

\* scheduler.start()
WorkerStart ==
    /\ clock < WorkerHorizon
    /\ sched[1].pc = "new"
    /\ sched' = [sched EXCEPT ![1] = StartThread(@)]
    /\ UNCHANGED <<pico, link, clock, midi_files, rhythm, audio, im, frame_age, fb_log>>

\* scheduler.set_start_time(now)
WorkerSetStartTime ==
    /\ clock < WorkerHorizon
    /\ sched[1].start_time = None
    /\ sched' = [sched EXCEPT ![1] = SetStartTime(@, clock)]
    /\ UNCHANGED <<pico, link, clock, midi_files, rhythm, audio, im, frame_age, fb_log>>

\* scheduler.stop()
WorkerStop ==
    /\ ~sched[1].stop_flag
    /\ sched' = [sched EXCEPT ![1] = SchedulerStop(@)]
    /\ UNCHANGED <<pico, link, clock, midi_files, rhythm, audio, im, frame_age, fb_log>>

\* time passes: a sleeping worker wakes up at most WorkerLagMax late
WorkerTick ==
    /\ clock < WorkerHorizon \/ (sched[1].pc = "sleep" /\ clock < sched[1].wake)
    /\ sched[1].pc = "sleep" => clock + 1 <= sched[1].wake + WorkerLagMax
    /\ clock' = clock + 1
    /\ UNCHANGED <<pico, link, midi_files, rhythm, sched, audio, im, frame_age, fb_log>>

NextWorker ==
    \/ WorkerStart
    \/ WorkerSetStartTime
    \/ WorkerStop
    \/ WorkerTick
    \/ WorkerStep(1)

SpecWorker ==
    /\ InitWorker
    /\ [][NextWorker]_vars
    /\ WF_vars(WorkerStep(1))
    /\ WF_vars(WorkerTick)

\* C40: under fair scheduling the worker terminates: once run() has begun
\* and stop() has been called or every note has been played, run() returns,
\* wherever the worker is at that moment (waiting for the start time,
\* sleeping before a note that is not due, between two notes).
C40_WorkerTerminates ==
    (/\ sched[1].pc # "new"
     /\ sched[1].stop_flag \/ sched[1].idx = Len(sched[1].notes))
        ~> (sched[1].pc = "done")

\* run() has returned for a worker that was stopped while it waited for a
\* start time that was never set
C40_Witness ==
    /\ sched[1].pc = "done"
    /\ sched[1].stop_flag
    /\ sched[1].start_time = None
    /\ sched[1].played = <<>>

\* a worker that was stopped while it slept before its second note
C40_StoppedAsleep ==
    /\ sched[1].pc = "sleep"
    /\ sched[1].stop_flag
    /\ sched[1].idx = 1
    /\ clock < sched[1].wake

\* ------------------------------------------------------------------------
\* The host and the remote device together, over a reliable serial link.
\* Both clocks advance together, SessQuantum at a time, once both main
\* loops have nothing left to do at the present instant; within an instant
\* the iterations of the two loops interleave freely.  A line the host
\* writes is read by the device at once; a line the device prints reaches
\* the host in a later poll (link.msgs is every line polled so far).  The
\* player presses the button of lane 2 (medium, whose chart is empty, so a
\* session that starts is over in the same frame) or switches the mode.
\* ------------------------------------------------------------------------
SessQuantum == 100
SessHorizon == 2300
\* the inputs of the player that have an effect
MaxInputs == 4

SessEvents == {NoteOn(2, "button"), ModeSwitch("rhythm"), ModeSwitch("menu")}

\* PicoModeDisplay.show_mode / send_rhythm_level: the line as written
WireMode(mode_name) == <<"MODE:", mode_name>>

WireLevel(difficulty) == <<"RHYTHM:LEVEL:", difficulty>>

\* PicoModeDisplay.send_rhythm_*: the line as written
Wire(line) ==
    CASE line.cmd = "USER_SCORE" \/ line.cmd = "BEST_SCORE" ->
             <<IF line.cmd = "USER_SCORE" THEN "RHYTHM:USER_SCORE:" ELSE "RHYTHM:BEST_SCORE:",
               ToString(line.text[1])>>
             \o (IF Len(line.text) = 2 THEN <<"/", ToString(line.text[2])>> ELSE <<>>)
      [] line.cmd = "CHALLENGE_FAIL" -> <<"RHYTHM:CHALLENGE_FAIL">>
      [] line.cmd = "CHALLENGE_SUCCESS" -> <<"RHYTHM:CHALLENGE_SUCCESS">>
      [] line.cmd = "USER_SCORE_LABEL" -> <<"RHYTHM:USER_SCORE_LABEL">>
      [] line.cmd = "BEST_SCORE_LABEL" -> <<"RHYTHM:BEST_SCORE_LABEL">>
      [] OTHER -> <<"RHYTHM:BACK_TO_TITLE">>

\* what handle_events writes to the device for one event
SentByEvent(W, ev) ==
    IF ev.type = "MODE_SWITCH"
    THEN IF ev.mode_name # W.im.current_mode THEN <<WireMode(ev.mode_name)>> ELSE <<>>
    ELSE IF IsDifficultyPress(ev) /\ W.im.current_mode = "rhythm" /\ W.r.phase = "WAIT_COUNTDOWN"
    THEN <<WireLevel(DifficultyOfKey(ev.key))>>
    ELSE <<>>

\* what update writes to the device: the lines the post-game timeline added
SentByUpdate(W1, W2) ==
    LET old == W1.im.postgame_sent
        new == W2.im.postgame_sent
        added == IF W2.im.high_scores.calls > W1.im.high_scores.calls THEN new
                 ELSE SubSeq(new, Len(old) + 1, Len(new))
    IN [i \in 1..Len(added) |-> Wire(added[i])]

\* the device reads the lines, one per iteration of its loop
RECURSIVE Deliver(_, _)
Deliver(P, lines) ==
    IF lines = <<>> THEN P ELSE Deliver(PicoLoop(P, Head(lines)), Tail(lines))

\* the lines the device has printed that the host has not polled yet
Outstanding == SubSeq(pico.printed, Len(link.msgs) + 1, Len(pico.printed))

IsInput(line) == StartsWith(line, "MODE:") \/ StartsWith(line, "RHYTHM:LEVEL:")

Inputs == Len(SelectSeq([i \in DOMAIN pico.received |-> pico.received[i].line], IsInput))

\* main.py: show_mode("menu") before the main loop
InitSession ==
    /\ clock = 0
    /\ midi_files = DefaultMidiFiles
    /\ rhythm = InitRhythm
    /\ sched = [id \in SchedIds |-> NewScheduler(<<>>)]
    /\ audio = [sounding |-> {}]
    /\ im = InitIm
    /\ frame_age = 1
    /\ fb_log = <<>>
    /\ pico = PicoLoop(InitPico(TRUE, TRUE), WireMode("menu"))
    /\ link = InitLink

\* one iteration of the host's main loop: events holds at most one event,
\* the poll returns the first k lines that are outstanding
SessHost(events, k) ==
    LET messages == SubSeq(Outstanding, 1, k)
        W1 == ImHandleEvents(World, events, clock)
        W2 == ImUpdate(W1, messages, clock)
        sent == (IF events = <<>> THEN <<>> ELSE SentByEvent(World, events[1]))
                \o SentByUpdate(W1, W2)
    IN /\ events # <<>> => Inputs <= MaxInputs
       /\ Install(W2)
       /\ pico' = Deliver(pico, sent)
       /\ link' = [link EXCEPT !.msgs = @ \o messages]
       /\ UNCHANGED <<clock, midi_files, frame_age>>

\* one iteration of the device's main loop with nothing to read
SessPico ==
    /\ pico' = PicoLoop(pico, <<>>)
    /\ UNCHANGED Host

\* time passes once neither loop has anything left to do now; the clocks
\* start when the player first leaves the menu
SessTick ==
    /\ pico.now < SessHorizon
    /\ Inputs > 1
    /\ Outstanding = <<>>
    /\ PicoLoop(pico, <<>>) = pico
    /\ MainLoop(World, <<>>, <<>>, clock) = World
    /\ clock' = clock + SessQuantum
    /\ pico' = [pico EXCEPT !.now = @ + SessQuantum]
    /\ UNCHANGED <<link, midi_files, rhythm, sched, audio, im, frame_age, fb_log>>

NextSession ==
    \/ \E events \in {<<>>} \cup {<<ev>> : ev \in SessEvents}, k \in 0..Len(Outstanding) :
          SessHost(events, k)
    \/ SessPico
    \/ SessTick

SpecSession == InitSession /\ [][NextSession]_vars

\* a line that begins a session of the rhythm mode on the device's side
SessionStart(line) == StartsWith(line, "MODE:") \/ line = <<"RHYTHM:BACK_TO_TITLE">>

\* a RHYTHM:LEVEL line was written in the current session: none of the
\* lines after it begins a session
LevelSent(received) ==
    \E i \in DOMAIN received :
        /\ StartsWith(received[i].line, "RHYTHM:LEVEL:")
        /\ \A j \in (i + 1)..Len(received) : ~SessionStart(received[j].line)

\* C36: a session starts to play only if a RHYTHM:LEVEL was written in
\* the current session, that is since the rhythm mode was last entered.
\* (A session that starts is counted by the high-score store when it ends,
\* in the same frame.)
C36_PlayOnlyOnOwnAck ==
    [][im'.high_scores.calls > im.high_scores.calls =>
          LevelSent(pico'.received)]_vars

\* C35: while the host waits for the countdown of a difficulty that was
\* selected in the current session, with no mode switch since, the
\* acknowledgement is still to come: the device counts down, or the line
\* it printed has not been polled yet.
C35_CountdownNeverLost ==
    (/\ im.current_mode = "rhythm"
     /\ rhythm.phase = "WAIT_COUNTDOWN"
     /\ LevelSent(pico.received))
        => \/ pico.STATE = "RHYTHM_COUNTDOWN"
           \/ \E i \in DOMAIN Outstanding : Outstanding[i] = CountdownDone

\* a session was played: its difficulty was selected, the device counted
\* down and the host polled the acknowledgement
SessionPlayed ==
    /\ im.high_scores.calls > 0
    /\ \E i \in DOMAIN link.msgs : link.msgs[i] = CountdownDone

\* the sum of the score fields of the judged notes of the chart
RECURSIVE JudgedSum(_)
JudgedSum(chart) ==
    IF chart = <<>> THEN 0
    ELSE (IF chart[Len(chart)].judged THEN chart[Len(chart)].score ELSE 0)
         + JudgedSum(SubSeq(chart, 1, Len(chart) - 1))

\* C39: in every reachable state 0 <= score <= max_score, max_score is
\* twice the number of chart notes, and score is the sum of the score
\* fields of the judged notes of the current chart.
C39_ScoreAccounting ==
    /\ 0 <= rhythm.score
    /\ rhythm.score <= rhythm.max_score
    /\ rhythm.max_score = 2 * Len(rhythm.chart_notes)
    /\ rhythm.score = JudgedSum(rhythm.chart_notes)

\* a game is under way in which one note earned points and another is
\* still to be judged
C39_Witness ==
    /\ rhythm.phase = "PLAY"
    /\ rhythm.score > 0
    /\ rhythm.score < rhythm.max_score
    /\ \E i \in DOMAIN rhythm.chart_notes : ~rhythm.chart_notes[i].judged

====
